---- MODULE Spec2Model ----
(***************************************************************************)
(* The proactive opportunity engine of nanobot: OpportunityTracker         *)
(* (memory/tracker.py) and SmartProactiveService.pulse_check               *)
(* (memory/smart_proactive.py).                                            *)
(*                                                                         *)
(* Time is counted in whole days: `now` is what datetime.now() returns,    *)
(* now.date() is `now` itself and (a - b).days is a - b.                   *)
(* The memory store is the collaborator behind client.client: set(uri, v)  *)
(* keeps v at uri, get(uri) gives it back, list(prefix) lists the uris     *)
(* below a prefix in an order of the store's choosing.                     *)
(***************************************************************************)
EXTENDS Integers, Sequences, FiniteSets, TLC

(***************************************************************************)
(* Bounds of the model.                                                    *)
(***************************************************************************)
\* opportunities ever created (each one takes a fresh uuid)
MaxOpps == 3
\* opportunities the Explorer and the second-life source hand over in all
MaxExplored == 2
\* messages delivered in one behaviour
MaxDelivered == 4
\* times the clock is moved forward in one behaviour
MaxAdvances == 2
\* config.max_per_day of the instance under check
MaxPerDay == 2
\* config.explore_interval_minutes of the instance under check, in days
ExploreInterval == 1

(***************************************************************************)
(* Program constants.                                                      *)
(***************************************************************************)
\* should_send: self._get_recent_sent(days=30)
DedupWindowDays == 30
\* Opportunity.follow_up_interval_days default
DefaultFollowUpInterval == 7
\* should_send: opportunity.reminder_count >= 3
MaxReminders == 3
\* Optional[str] = None of sent_at and of _last_explore_time
NoneTime == -1

\* the invocations of pulse_check that may be in flight: the proactive loop
\* of the scheduler and an ad hoc manual trigger
Callers == {"scheduler", "manual"}

\* how far the clock may move in one step: over midnight, over a follow-up
\* interval, over the dedup window
Jumps == {1, DefaultFollowUpInterval, DedupWindowDays}

VARIABLES
    now,                 \* datetime.now(), in days
    advances,            \* how often the clock has moved (bounded)
    config,              \* SmartProactiveConfig: enabled, follow_up_enabled,
                         \* explore_interval_minutes (in days)
    store_opportunities, \* the store below BASE_URI/opportunities: id -> record
    store_sent,          \* the store below BASE_URI/sent: id -> record
    _today_count,        \* SmartProactiveService._today_count: date -> int
    _last_explore_time,  \* SmartProactiveService._last_explore_time
    _explore_lock,       \* holder of SmartProactiveService._explore_lock, or "free"
    pc,                  \* where each invocation of pulse_check stands
    today,               \* pulse_check's local `today`
    today_count,         \* pulse_check's local `today_count`
    opportunities,       \* pulse_check's local `opportunities`
    idx,                 \* position of the for loop in `opportunities`
    sent_messages,       \* pulse_check's local `sent_messages`
    delivered,           \* history: every sender.send that returned, <<id, day>>
    probe,               \* a direct call of should_send: candidate and verdict
    hb,                  \* HeartbeatService: enabled, and the services it was given
    _running,            \* HeartbeatService._running
    loop,                \* where each loop task of HeartbeatService stands
    tick_error,          \* history: the last tick of each loop raised
    aborted,             \* history: the exception that last left pulse_check
    run,                 \* ExplorerAgent.run: its locals, and the calls it made
    simple,              \* ProactiveService: its fields, pulse_check's locals
    tasks,               \* every asyncio.Task that start() has created
    _task                \* HeartbeatService._task, _proactive_task,
                         \* _personality_task: the task each refers to, or 0

clockVars == <<now, advances>>
storeVars == <<store_opportunities, store_sent>>
svcVars == <<_today_count, _last_explore_time, _explore_lock>>
tickVars == <<pc, today, today_count, opportunities, idx, sent_messages>>
schedVars == <<hb, _running, loop, tick_error, aborted>>
otherVars == <<simple, tasks, _task>>
vars == <<clockVars, config, storeVars, svcVars, tickVars, delivered, probe,
         schedVars, run, otherVars>>

(***************************************************************************)
(* Opportunity (memory/opportunity.py)                                     *)
(***************************************************************************)
\* what the Explorer's create_opportunity tool, or the second-life source,
\* may hand over: source, title, tags, priority and session are the
\* language model's choice
Templates ==
    { [source |-> "memory_user", title |-> "project", tags |-> {"project"},
       priority |-> 80, session_id |-> "s1"],
      [source |-> "memory_user", title |-> "mood", tags |-> {"mood"},
       priority |-> 40, session_id |-> "s2"],
      [source |-> "follow_up", title |-> "project", tags |-> {"work"},
       priority |-> 80, session_id |-> "s1"] }

\* Opportunity(...) as ExplorerAgent._parse_opportunity_result builds it:
\* __post_init__ stamps created_at, the other fields keep their defaults
Opportunity(id, tpl, created) ==
    [id |-> id, source |-> tpl.source, title |-> tpl.title,
     content |-> "c", priority |-> tpl.priority, status |-> "pending",
     session_id |-> tpl.session_id, created_at |-> created,
     sent_at |-> NoneTime, reminder_count |-> 0, parent_id |-> 0,
     follow_up_interval_days |-> DefaultFollowUpInterval, tags |-> tpl.tags]

\* Opportunity.to_dict: every field, the enums by their value
to_dict(o) ==
    [id |-> o.id, source |-> o.source, title |-> o.title,
     content |-> o.content, priority |-> o.priority, status |-> o.status,
     session_id |-> o.session_id, created_at |-> o.created_at,
     sent_at |-> o.sent_at, reminder_count |-> o.reminder_count,
     parent_id |-> o.parent_id,
     follow_up_interval_days |-> o.follow_up_interval_days, tags |-> o.tags]

\* Opportunity.from_dict, then __post_init__: an empty created_at becomes now
from_dict(d) ==
    [id |-> d.id, source |-> d.source, title |-> d.title,
     content |-> d.content, priority |-> d.priority, status |-> d.status,
     session_id |-> d.session_id,
     created_at |-> IF d.created_at = NoneTime THEN now ELSE d.created_at,
     sent_at |-> d.sent_at, reminder_count |-> d.reminder_count,
     parent_id |-> d.parent_id,
     follow_up_interval_days |-> d.follow_up_interval_days, tags |-> d.tags]

(***************************************************************************)
(* OpportunityTracker (memory/tracker.py)                                  *)
(***************************************************************************)
\* _load_from_uri: the cache is keyed by id and asked by uri, so it never
\* answers; the record comes from the store each time
_load_from_uri(dir, id) == from_dict(dir[id])

\* _is_duplicate without the comparison of the titles
_is_duplicate_tags_only(new, existing) ==
    new.tags \cap existing.tags # {}

\* _is_duplicate: the tags intersect, or the titles are the same
_is_duplicate(new, existing) ==
    \/ new.tags \cap existing.tags # {}
    \/ new.title = existing.title

\* _is_follow_up_due
_is_follow_up_due(new, existing) ==
    IF existing.sent_at = NoneTime
    THEN FALSE
    ELSE (now - existing.sent_at) >= new.follow_up_interval_days

\* _get_recent_sent(days): the records of the sent partition whose sent_at
\* is not before the cutoff
_get_recent_sent(days) ==
    LET cutoff == now - days
    IN { _load_from_uri(store_sent, i) : i \in
           { j \in DOMAIN store_sent :
               /\ store_sent[j].sent_at # NoneTime
               /\ store_sent[j].sent_at >= cutoff } }

\* should_send, step 1: the loop over the recently sent. A duplicate that
\* is a follow-up not yet due is skipped (continue); any other duplicate
\* ends the call with False. The verdict does not depend on the order.
DuplicateFound(opportunity) ==
    \E s \in _get_recent_sent(DedupWindowDays) :
        /\ _is_duplicate(opportunity, s)
        /\ ~(opportunity.source = "follow_up" /\ ~_is_follow_up_due(opportunity, s))

\* should_send with the status check of step 2 left out
should_send_expires_any_status(opportunity) ==
    /\ ~DuplicateFound(opportunity)
    /\ opportunity.reminder_count >= MaxReminders

\* should_send with `>` for the `>=` of step 3
should_send_expires_off_by_one(opportunity) ==
    /\ ~DuplicateFound(opportunity)
    /\ opportunity.status = "pending"
    /\ opportunity.reminder_count > MaxReminders

\* should_send, step 3 reached and taken: the candidate is expired and saved
should_send_expires(opportunity) ==
    /\ ~DuplicateFound(opportunity)
    /\ opportunity.status = "pending"
    /\ opportunity.reminder_count >= MaxReminders

\* should_send: the value returned
should_send(opportunity) ==
    /\ ~DuplicateFound(opportunity)
    /\ opportunity.status = "pending"
    /\ opportunity.reminder_count < MaxReminders

\* mark_sent without the assignment to status
mark_sent_keeps_status(opportunity) ==
    [opportunity EXCEPT !.sent_at = now, !.reminder_count = @ + 1]

\* mark_sent without the stamp of sent_at
mark_sent_no_stamp(opportunity) ==
    [opportunity EXCEPT !.status = "sent", !.reminder_count = @ + 1]

\* mark_sent: the object after the call
mark_sent(opportunity) ==
    [opportunity EXCEPT !.status = "sent", !.sent_at = now,
                        !.reminder_count = @ + 1]

\* create_follow_up that hands on the content of the original
create_follow_up_keeps_content(original, new_context, id) ==
    [id |-> id, source |-> "follow_up", title |-> original.title,
     content |-> original.content, priority |-> original.priority,
     status |-> "pending", session_id |-> original.session_id,
     created_at |-> now, sent_at |-> NoneTime, reminder_count |-> 0,
     parent_id |-> original.id,
     follow_up_interval_days |-> original.follow_up_interval_days,
     tags |-> original.tags]

\* create_follow_up: the child, a new Opportunity with the fields passed
create_follow_up(original, new_context, id) ==
    [id |-> id, source |-> "follow_up", title |-> original.title,
     content |-> new_context, priority |-> original.priority,
     status |-> "pending", session_id |-> original.session_id,
     created_at |-> now, sent_at |-> NoneTime, reminder_count |-> 0,
     parent_id |-> original.id,
     follow_up_interval_days |-> original.follow_up_interval_days,
     tags |-> original.tags]

\* _save: set(BASE_URI/opportunities/<id>.json, to_dict)
_save(dir, opportunity) ==
    (opportunity.id :> to_dict(opportunity)) @@ dir

\* _save_to_sent: set(BASE_URI/sent/<id>.json, to_dict)
_save_to_sent(dir, opportunity) ==
    (opportunity.id :> to_dict(opportunity)) @@ dir

\* the insertion of a sort that lost reverse=True: lower priority first
InsertByPriorityAscending(acc, x) ==
    LET k == Cardinality({i \in 1..Len(acc) : acc[i].priority <= x.priority})
    IN SubSeq(acc, 1, k) \o <<x>> \o SubSeq(acc, k + 1, Len(acc))

\* list.sort(key=priority, reverse=True), one insertion: stable, so x goes
\* behind everything of its priority or higher
InsertByPriority(acc, x) ==
    LET k == Cardinality({i \in 1..Len(acc) : acc[i].priority >= x.priority})
    IN SubSeq(acc, 1, k) \o <<x>> \o SubSeq(acc, k + 1, Len(acc))

RECURSIVE SortByPriority(_, _)
SortByPriority(acc, rest) ==
    IF rest = <<>> THEN acc
    ELSE SortByPriority(InsertByPriority(acc, Head(rest)), Tail(rest))

\* get_pending_opportunities, after the listing: load each uri, keep the
\* pending ones, sort by priority, higher first
RECURSIVE LoadPending(_)
LoadPending(uris) ==
    IF uris = <<>> THEN <<>>
    ELSE LET opp == _load_from_uri(store_opportunities, Head(uris))
         IN (IF opp.status = "pending" THEN <<opp>> ELSE <<>>)
            \o LoadPending(Tail(uris))

get_pending_opportunities(uris) == SortByPriority(<<>>, LoadPending(uris))

\* the orders in which the store may list a directory
Listings(dir) ==
    { s \in [1..Cardinality(DOMAIN dir) -> DOMAIN dir] :
        \A i, j \in DOMAIN s : i # j => s[i] # s[j] }

(***************************************************************************)
(* SmartProactiveService (memory/smart_proactive.py)                       *)
(***************************************************************************)
\* a count that is not kept by day: the last one written, whatever its day
TodayCountGetLatest(day) ==
    IF DOMAIN _today_count = {}
    THEN 0
    ELSE _today_count[CHOOSE d \in DOMAIN _today_count :
                          \A e \in DOMAIN _today_count : e <= d]

\* self._today_count.get(day, 0)
TodayCountGet(day) ==
    IF day \in DOMAIN _today_count THEN _today_count[day] ELSE 0

\* _should_explore that does not look at the time
_should_explore_always == TRUE

\* _should_explore
_should_explore ==
    IF _last_explore_time = NoneTime
    THEN TRUE
    ELSE (now - _last_explore_time) >= config.explore_interval_minutes

\* pulse_check without the double check: whoever gets the lock explores
NoDoubleCheck == TRUE

\* pulse_check, line 111: the second _should_explore, under the lock
DoubleCheck == _should_explore

\* the opportunities that came from exploration: those without a parent
Explored == {i \in DOMAIN store_opportunities : store_opportunities[i].parent_id = 0}

\* uuid.uuid4(): an id no opportunity has yet
FreshId == Cardinality(DOMAIN store_opportunities) + 1

\* the opportunity the for loop of pulse_check stands at
Current(t) == opportunities[t][idx[t]]

\* pulse_check returns: its locals are gone
Return(t) ==
    /\ pc' = [pc EXCEPT ![t] = "idle"]
    /\ today' = [today EXCEPT ![t] = 0]
    /\ today_count' = [today_count EXCEPT ![t] = 0]
    /\ opportunities' = [opportunities EXCEPT ![t] = <<>>]
    /\ idx' = [idx EXCEPT ![t] = 0]
    /\ sent_messages' = [sent_messages EXCEPT ![t] = <<>>]

\* pulse_check with the check of the daily limit of lines 103-105 left out
ReturnsAtOnceDisabledOnly == ~config.enabled

\* pulse_check, lines 96-105: disabled, or the daily limit reached
ReturnsAtOnce == ~config.enabled \/ TodayCountGet(now) >= MaxPerDay

\* pulse_check, lines 96-112: disabled, or the daily limit reached: return [].
\* Otherwise read today and today's count and see whether to explore; the
\* lock, when free, is taken without suspending and the double check is then
\* the same reading of the clock.
PulseStart(t) ==
    /\ pc[t] = "idle"
    /\ IF ReturnsAtOnce
       THEN /\ Return(t)
            /\ UNCHANGED <<clockVars, config, run, otherVars, storeVars, svcVars, delivered,
                           probe, schedVars>>
       ELSE /\ today' = [today EXCEPT ![t] = now]
            /\ today_count' = [today_count EXCEPT ![t] = TodayCountGet(now)]
            /\ sent_messages' = [sent_messages EXCEPT ![t] = <<>>]
            /\ IF _should_explore
               THEN IF _explore_lock = "free"
                    THEN /\ _explore_lock' = t
                         /\ pc' = [pc EXCEPT ![t] = "explore"]
                    ELSE /\ pc' = [pc EXCEPT ![t] = "lock"]
                         /\ UNCHANGED _explore_lock
               ELSE /\ pc' = [pc EXCEPT ![t] = "list"]
                    /\ UNCHANGED _explore_lock
            /\ UNCHANGED <<clockVars, config, run, otherVars, storeVars, _today_count,
                           _last_explore_time, opportunities, idx, delivered,
                           probe, schedVars>>

\* pulse_check, lines 109-112, for a caller that queued behind the lock: it
\* gets the lock once it is free, checks again, and explores or lets go
LockAcquire(t) ==
    /\ pc[t] = "lock"
    /\ _explore_lock = "free"
    /\ IF DoubleCheck
       THEN /\ _explore_lock' = t
            /\ pc' = [pc EXCEPT ![t] = "explore"]
       ELSE /\ pc' = [pc EXCEPT ![t] = "list"]
            /\ UNCHANGED _explore_lock
    /\ UNCHANGED <<clockVars, config, run, otherVars, storeVars, _today_count,
                   _last_explore_time, today, today_count, opportunities,
                   idx, sent_messages, delivered, probe, schedVars>>

\* _explore_and_queue, lines 142-160: one opportunity the Explorer (or the
\* second-life source) returned is saved
ExploreSave(t, tpl) ==
    /\ pc[t] = "explore"
    /\ FreshId <= MaxOpps
    /\ Cardinality(Explored) < MaxExplored
    /\ store_opportunities' =
           _save(store_opportunities, Opportunity(FreshId, tpl, now))
    /\ UNCHANGED <<clockVars, config, run, otherVars, store_sent, svcVars, tickVars,
                   delivered, probe, schedVars>>

\* _explore_and_queue, line 164, and the end of `async with`
ExploreDone(t) ==
    /\ pc[t] = "explore"
    /\ _last_explore_time' = now
    /\ _explore_lock' = "free"
    /\ pc' = [pc EXCEPT ![t] = "list"]
    /\ UNCHANGED <<clockVars, config, run, otherVars, storeVars, _today_count, today,
                   today_count, opportunities, idx, sent_messages, delivered,
                   probe, schedVars>>

\* pulse_check, line 115: get_pending_opportunities. The store lists the
\* directory in an order of its choosing; the records are loaded, filtered
\* and sorted.
ListPending(t) ==
    /\ pc[t] = "list"
    /\ \E uris \in Listings(store_opportunities) :
           opportunities' =
               [opportunities EXCEPT ![t] = get_pending_opportunities(uris)]
    /\ idx' = [idx EXCEPT ![t] = 1]
    /\ pc' = [pc EXCEPT ![t] = "loop"]
    /\ UNCHANGED <<clockVars, config, run, otherVars, storeVars, svcVars, today, today_count,
                   sent_messages, delivered, probe, schedVars>>

\* pulse_check, lines 118-120 and 134-135: the list is exhausted or the limit
\* is reached (break): today's count is stored and the sessions are returned
LoopFinish(t) ==
    /\ pc[t] = "loop"
    /\ idx[t] > Len(opportunities[t]) \/ today_count[t] >= MaxPerDay
    /\ _today_count' = (today[t] :> today_count[t]) @@ _today_count
    /\ Return(t)
    /\ UNCHANGED <<clockVars, config, run, otherVars, storeVars, _last_explore_time,
                   _explore_lock, delivered, probe, schedVars>>

\* pulse_check, line 122: should_send on the next opportunity. Accepted: go
\* on to send it. Rejected: next one; a rejection for the reminder count
\* first expires the candidate and saves it.
LoopCheck(t) ==
    /\ pc[t] = "loop"
    /\ idx[t] <= Len(opportunities[t])
    /\ today_count[t] < MaxPerDay
    /\ IF should_send(Current(t))
       THEN /\ pc' = [pc EXCEPT ![t] = "send"]
            /\ UNCHANGED <<store_opportunities, opportunities, idx>>
       ELSE /\ idx' = [idx EXCEPT ![t] = @ + 1]
            /\ UNCHANGED pc
            /\ IF should_send_expires(Current(t))
               THEN LET expired == [Current(t) EXCEPT !.status = "expired"]
                    IN /\ opportunities' =
                              [opportunities EXCEPT ![t][idx[t]] = expired]
                       /\ store_opportunities' =
                              _save(store_opportunities, expired)
               ELSE UNCHANGED <<store_opportunities, opportunities>>
    /\ UNCHANGED <<clockVars, config, run, otherVars, store_sent, svcVars, today, today_count,
                   sent_messages, delivered, probe, schedVars>>

\* pulse_check, lines 123-124: the message is composed and the sink takes it
Deliver(t) ==
    /\ pc[t] = "send"
    /\ config.follow_up_enabled => FreshId <= MaxOpps
    /\ Len(delivered) < MaxDelivered
    /\ delivered' = Append(delivered, [id |-> Current(t).id, at |-> now])
    /\ pc' = [pc EXCEPT ![t] = "mark"]
    /\ UNCHANGED <<clockVars, config, run, otherVars, storeVars, svcVars, today, today_count,
                   opportunities, idx, sent_messages, probe, schedVars>>

\* pulse_check, lines 131-132
Counted(t) ==
    /\ sent_messages' =
           [sent_messages EXCEPT ![t] = Append(@, Current(t).session_id)]
    /\ today_count' = [today_count EXCEPT ![t] = @ + 1]
    /\ idx' = [idx EXCEPT ![t] = @ + 1]
    /\ pc' = [pc EXCEPT ![t] = "loop"]

\* pulse_check without lines 128-129: the iteration ends after mark_sent
MarkSentNoFollowUp(t) ==
    /\ pc[t] = "mark"
    /\ LET marked == mark_sent(Current(t))
       IN /\ store_sent' = _save_to_sent(store_sent, marked)
          /\ opportunities' = [opportunities EXCEPT ![t][idx[t]] = marked]
          /\ Counted(t)
    /\ UNCHANGED <<clockVars, config, run, otherVars, store_opportunities, svcVars, today,
                   delivered, probe, schedVars>>

\* pulse_check, line 125: tracker.mark_sent; with follow-ups disabled the
\* iteration ends here
MarkSent(t) ==
    /\ pc[t] = "mark"
    /\ LET marked == mark_sent(Current(t))
       IN /\ store_sent' = _save_to_sent(store_sent, marked)
          /\ IF config.follow_up_enabled
             THEN /\ opportunities' =
                         [opportunities EXCEPT ![t][idx[t]] = marked]
                  /\ pc' = [pc EXCEPT ![t] = "follow"]
                  /\ UNCHANGED <<today_count, idx, sent_messages>>
             ELSE /\ opportunities' =
                         [opportunities EXCEPT ![t][idx[t]] = marked]
                  /\ Counted(t)
    /\ UNCHANGED <<clockVars, config, run, otherVars, store_opportunities, svcVars, today,
                   delivered, probe, schedVars>>

\* pulse_check, lines 128-132: _create_follow_up_opportunity, with "" as the
\* new context
CreateFollowUp(t) ==
    /\ pc[t] = "follow"
    /\ FreshId <= MaxOpps
    /\ store_opportunities' =
           _save(store_opportunities, create_follow_up(Current(t), "", FreshId))
    /\ Counted(t)
    /\ UNCHANGED <<clockVars, config, run, otherVars, store_sent, svcVars, today,
                   opportunities, delivered, probe, schedVars>>

\* a caller that is ready to run: it waits for no I/O, no sleep and no lock
\* that is held
Runnable(t) == pc[t] = "lock" /\ _explore_lock = "free"

\* time passes while every caller sleeps or waits: over midnight at any such
\* point, over days and weeks only between ticks
Advance(d) ==
    /\ advances < MaxAdvances
    /\ \A t \in Callers : ~Runnable(t)
    /\ d > 1 => \A t \in Callers : pc[t] = "idle"
    /\ now' = now + d
    /\ advances' = advances + 1
    /\ UNCHANGED <<config, run, otherVars, storeVars, svcVars, tickVars, delivered, probe,
                   schedVars>>

\* no direct call of should_send yet
NoProbe == [ret |-> "none", cand |-> [id |-> 0], arg |-> [id |-> 0]]

\* ExplorerAgent.run has not been called
NoRun ==
    [pc |-> "off", iteration |-> 0, max_iterations |-> 0, response |-> <<>>,
     opportunities |-> <<>>, chat_calls |-> 0, dropped_after |-> -1]

(***************************************************************************)
(* HeartbeatService (heartbeat/service.py): its three loop tasks           *)
(***************************************************************************)
\* _run_loop, _run_proactive_loop, _run_personality_loop
Loops == {"heartbeat", "proactive", "personality"}

\* no exception has left pulse_check
NoAbort == [kind |-> "none", id |-> 0]

\* HeartbeatService(...): every way it may be set up
HeartbeatConfigs ==
    [enabled : BOOLEAN, proactive_service : BOOLEAN,
     personality_updater : BOOLEAN]

\* enabled, with a proactive service and a personality updater
AllProvided ==
    [enabled |-> TRUE, proactive_service |-> TRUE, personality_updater |-> TRUE]

\* HeartbeatService.__init__: not running, no task
HeartbeatInit(h) ==
    /\ hb = h
    /\ _running = FALSE
    /\ loop = [l \in Loops |-> "none"]
    /\ tick_error = [l \in Loops |-> FALSE]
    /\ aborted = NoAbort

\* no ProactiveService has been made
NoSimple == [pc |-> "off"]

\* HeartbeatService.__init__, lines 77-79: the three task attributes are None
NoTasks == [l \in Loops |-> 0]

\* no ProactiveService, and start() has created no task yet
OtherInit ==
    /\ simple = NoSimple
    /\ tasks = <<>>
    /\ _task = NoTasks

\* SmartProactiveService.__init__ with an empty store
Init ==
    /\ now = 0
    /\ advances = 0
    /\ config \in [enabled : BOOLEAN, follow_up_enabled : BOOLEAN,
                   explore_interval_minutes : {ExploreInterval}]
    /\ store_opportunities = <<>>
    /\ store_sent = <<>>
    /\ _today_count = <<>>
    /\ _last_explore_time = NoneTime
    /\ _explore_lock = "free"
    /\ pc = [t \in Callers |-> "idle"]
    /\ today = [t \in Callers |-> 0]
    /\ today_count = [t \in Callers |-> 0]
    /\ opportunities = [t \in Callers |-> <<>>]
    /\ idx = [t \in Callers |-> 0]
    /\ sent_messages = [t \in Callers |-> <<>>]
    /\ delivered = <<>>
    /\ probe = NoProbe
    /\ run = NoRun
    /\ OtherInit
    /\ HeartbeatInit(AllProvided)

\* one step of an invocation of pulse_check that never waits for the lock
TickStep(t) ==
    \/ PulseStart(t)
    \/ \E tpl \in Templates : ExploreSave(t, tpl)
    \/ ExploreDone(t)
    \/ ListPending(t)
    \/ LoopCheck(t)
    \/ LoopFinish(t)
    \/ Deliver(t)
    \/ MarkSent(t)
    \/ CreateFollowUp(t)

\* the single dispatch loop: ticks follow one another
Next ==
    \/ TickStep("scheduler")
    \/ \E d \in Jumps : Advance(d)

Spec == Init /\ [][Next]_vars

\* the dispatch loop and a manual trigger, overlapping
NextOverlap ==
    \/ \E t \in Callers : TickStep(t)
    \/ \E t \in Callers : LockAcquire(t)

SpecOverlap == Init /\ [][NextOverlap]_vars

(***************************************************************************)
(* Collaborators that fail: pulse_check has no handler of its own, so what *)
(* a model call, a store write or the sink raises leaves pulse_check.      *)
(***************************************************************************)
\* an exception leaves pulse_check at the await the caller stands at: the
\* locals are gone, `async with` lets go of the lock, line 134 is not reached
Raise(t, kind) ==
    /\ Return(t)
    /\ _explore_lock' = IF _explore_lock = t THEN "free" ELSE _explore_lock
    /\ aborted' = [kind |-> kind,
                   id |-> IF pc[t] \in {"send", "mark", "follow"}
                          THEN Current(t).id ELSE 0]
    /\ UNCHANGED <<clockVars, config, run, otherVars, storeVars, _today_count,
                   _last_explore_time, delivered, probe, hb, _running, loop,
                   tick_error>>

\* _explore_and_queue, lines 145 and 149: provider.chat raises inside
\* explorer.run (explorer_agent.py:141), or the store's set inside
\* tracker._save; neither call stands in a try
ExploreFails(t) ==
    /\ pc[t] = "explore"
    /\ Raise(t, "explore")

\* pulse_check, line 123: _generate_with_llm raises; _generate_message
\* (lines 199-205) has no handler and no fallback
ComposeFails(t) ==
    /\ pc[t] = "send"
    /\ Raise(t, "compose")

\* pulse_check, line 124: sender.send raises
SendFails(t) ==
    /\ pc[t] = "send"
    /\ Raise(t, "send")

\* the dispatch loop over collaborators that may fail
NextFail ==
    \/ TickStep("scheduler")
    \/ ExploreFails("scheduler")
    \/ ComposeFails("scheduler")
    \/ SendFails("scheduler")

SpecFail == Init /\ [][NextFail]_vars

\* the dispatch loop, one tick after another with the clock moving, over an
\* Explorer that may fail
NextExploreFail ==
    \/ TickStep("scheduler")
    \/ \E d \in Jumps : Advance(d)
    \/ ExploreFails("scheduler")

SpecExploreFail == Init /\ [][NextExploreFail]_vars

(***************************************************************************)
(* HeartbeatService: start, stop and the three loops. A loop is "sleep"    *)
(* in asyncio.sleep, in one of its tick states while its tick is under     *)
(* way, "done" when its task has ended and "none" when it has no task.     *)
(***************************************************************************)
\* the first await of each loop's tick: _decide, pulse_check,
\* update_from_all_sessions
FirstTickState(l) ==
    CASE l = "heartbeat" -> "decide"
      [] l = "proactive" -> "pulse"
      [] l = "personality" -> "update"

\* a loop whose tick is under way
TickStates == {"decide", "execute", "notify", "pulse", "update"}

\* start creates the task of a loop: always for _run_loop, for the other two
\* when their service was given
HasTask(l) ==
    CASE l = "heartbeat" -> TRUE
      [] l = "proactive" -> hb.proactive_service
      [] l = "personality" -> hb.personality_updater

\* `while self._running`: the loop goes round again or its task ends
WhileRunning == IF _running THEN "sleep" ELSE "done"

\* a loop that lets the error of its tick end its task
OnTickErrorPropagates == "done"

\* `except Exception` of the tick and of the loop: the error is logged and the
\* loop goes round again
OnTickError == WhileRunning

\* one task for all the loops: the error of one tick ends every loop
LoopsAfterErrorShared(l) == [k \in Loops |-> IF loop[k] = "none" THEN "none" ELSE "done"]

\* the loops after the tick of loop l raised: only l is concerned
LoopsAfterError(l) == [loop EXCEPT ![l] = OnTickError]

\* start()
start ==
    /\ hb.enabled
    /\ ~_running
    /\ _running' = TRUE
    /\ loop' = [l \in Loops |-> IF HasTask(l) THEN "sleep" ELSE "none"]
    /\ UNCHANGED <<clockVars, config, run, otherVars, storeVars, svcVars, tickVars, delivered,
                   probe, hb, tick_error, aborted>>

\* stop(), and what the cancelled tasks then meet: CancelledError at the
\* await each is suspended at, asyncio.sleep or an await inside its tick. The
\* handlers of the ticks catch Exception, which CancelledError is not; the
\* loop's own handler breaks. A pulse_check under way is left at that await.
stop ==
    /\ _running' = FALSE
    /\ loop' = [l \in Loops |-> IF loop[l] = "none" THEN "none" ELSE "done"]
    /\ IF loop["proactive"] \in {"sleep", "pulse"} /\ pc["scheduler"] # "idle"
       THEN /\ Return("scheduler")
            /\ _explore_lock' =
                   IF _explore_lock = "scheduler" THEN "free" ELSE _explore_lock
            /\ aborted' = [kind |-> "cancel",
                           id |-> IF pc["scheduler"] \in {"send", "mark", "follow"}
                                  THEN Current("scheduler").id ELSE 0]
       ELSE UNCHANGED <<tickVars, _explore_lock, aborted>>
    /\ UNCHANGED <<clockVars, config, run, otherVars, storeVars, _today_count,
                   _last_explore_time, delivered, probe, hb, tick_error>>

\* a loop that neither ends on cancellation nor asks for _running
WakeUnstoppable(l) ==
    /\ loop[l] \in {"sleep", "done"}
    /\ loop' = [loop EXCEPT ![l] = FirstTickState(l)]
    /\ tick_error' = [tick_error EXCEPT ![l] = FALSE]
    /\ UNCHANGED <<clockVars, config, run, otherVars, storeVars, svcVars, tickVars, delivered,
                   probe, hb, _running, aborted>>

\* the sleep is over in a task that was not cancelled: `if self._running`
\* and the tick is called
Wake(l) ==
    /\ loop[l] = "sleep"
    /\ loop' = [loop EXCEPT ![l] = IF _running THEN FirstTickState(l) ELSE "done"]
    /\ tick_error' = [tick_error EXCEPT ![l] = FALSE]
    /\ UNCHANGED <<clockVars, config, run, otherVars, storeVars, svcVars, tickVars, delivered,
                   probe, hb, _running, aborted>>

\* _tick, lines 243-254: the decision is "run" and on_execute is called; it
\* gives a response and on_notify is called
TickProceeds(l) ==
    /\ l = "heartbeat"
    /\ loop[l] \in {"decide", "execute"}
    /\ loop' = [loop EXCEPT ![l] = IF loop[l] = "decide" THEN "execute" ELSE "notify"]
    /\ UNCHANGED <<clockVars, config, run, otherVars, storeVars, svcVars, tickVars, delivered,
                   probe, hb, _running, tick_error, aborted>>

\* the tick returns
TickReturns(l) ==
    /\ loop[l] \in TickStates
    /\ loop' = [loop EXCEPT ![l] = WhileRunning]
    /\ UNCHANGED <<clockVars, config, run, otherVars, storeVars, svcVars, tickVars, delivered,
                   probe, hb, _running, tick_error, aborted>>

\* an await of the tick raises an Exception: the tick's own handler (lines
\* 199, 230, 255) or the loop's (lines 175, 187, 211) logs it
TickFails(l) ==
    /\ loop[l] \in TickStates
    /\ loop' = LoopsAfterError(l)
    /\ tick_error' = [tick_error EXCEPT ![l] = TRUE]
    /\ UNCHANGED <<clockVars, config, run, otherVars, storeVars, svcVars, tickVars, delivered,
                   probe, hb, _running, aborted>>

\* HeartbeatService however it is set up, over a SmartProactiveService
InitHeartbeat ==
    /\ now = 0
    /\ advances = 0
    /\ config = [enabled |-> TRUE, follow_up_enabled |-> TRUE,
                 explore_interval_minutes |-> ExploreInterval]
    /\ store_opportunities = <<>>
    /\ store_sent = <<>>
    /\ _today_count = <<>>
    /\ _last_explore_time = NoneTime
    /\ _explore_lock = "free"
    /\ pc = [t \in Callers |-> "idle"]
    /\ today = [t \in Callers |-> 0]
    /\ today_count = [t \in Callers |-> 0]
    /\ opportunities = [t \in Callers |-> <<>>]
    /\ idx = [t \in Callers |-> 0]
    /\ sent_messages = [t \in Callers |-> <<>>]
    /\ delivered = <<>>
    /\ probe = NoProbe
    /\ run = NoRun
    /\ OtherInit
    /\ \E h \in HeartbeatConfigs : HeartbeatInit(h)

\* the three loops with their ticks taken as a whole
NextHeartbeat ==
    \/ start
    \/ stop
    \/ \E l \in Loops : Wake(l)
    \/ \E l \in Loops : TickProceeds(l)
    \/ \E l \in Loops : TickReturns(l)
    \/ \E l \in Loops : TickFails(l)

SpecHeartbeat == InitHeartbeat /\ [][NextHeartbeat]_vars

\* the event loop resumes a task whose sleep is over
FairHeartbeat == \A l \in Loops : WF_vars(Wake(l))

SpecHeartbeatFair == SpecHeartbeat /\ FairHeartbeat

\* _run_proactive_loop, lines 182-184, and _proactive_tick, line 196: the
\* sleep of the proactive loop is over and its tick calls pulse_check. While
\* pulse_check is under way the place of the loop is pc["scheduler"].
ProactivePulse ==
    /\ _running
    /\ loop["proactive"] = "sleep"
    /\ PulseStart("scheduler")

\* the proactive loop with pulse_check step by step, started and stopped
NextStop ==
    \/ start
    \/ stop
    \/ ProactivePulse
    \/ \E tpl \in Templates : ExploreSave("scheduler", tpl)
    \/ ExploreDone("scheduler")
    \/ ListPending("scheduler")
    \/ LoopCheck("scheduler")
    \/ LoopFinish("scheduler")
    \/ Deliver("scheduler")
    \/ MarkSent("scheduler")
    \/ CreateFollowUp("scheduler")

SpecStop == Init /\ [][NextStop]_vars

(***************************************************************************)
(* should_send called directly, on any candidate, over a sent partition    *)
(* that earlier ticks left behind.                                         *)
(***************************************************************************)
\* days since the opportunities of the sent partition were sent: today, inside
\* and past a follow-up interval, at the edge of the dedup window, outside it
Ages == {0, 5, 8, DedupWindowDays, DedupWindowDays + 1}

\* what mark_sent left in the sent partition for an opportunity sent `age`
\* days ago
SentRecord(id, title, tags, session, age) ==
    [id |-> id, source |-> "memory_user", title |-> title, content |-> "c",
     priority |-> 50, status |-> "sent", session_id |-> session,
     created_at |-> 0, sent_at |-> now - age, reminder_count |-> 1,
     parent_id |-> 0, follow_up_interval_days |-> DefaultFollowUpInterval,
     tags |-> tags]

\* the candidates handed to should_send
Candidates ==
    [id : {3}, source : {"memory_user", "follow_up"},
     title : {"project", "plan"}, content : {"c"}, priority : {0, 100},
     status : {"pending", "sent", "ignored", "expired"}, session_id : {"s1"},
     created_at : {0}, sent_at : {NoneTime}, reminder_count : {0, 2, 3},
     parent_id : {0}, follow_up_interval_days : {DefaultFollowUpInterval},
     tags : {{}, {"project"}}]

InitTracker ==
    /\ now = DedupWindowDays + 1
    /\ advances = 0
    /\ config \in [enabled : {TRUE}, follow_up_enabled : {TRUE},
                   explore_interval_minutes : {ExploreInterval}]
    /\ store_opportunities = <<>>
    /\ \E a1, a2 \in Ages, n \in 0..2 :
           store_sent =
               [i \in 1..n |->
                   IF i = 1
                   THEN SentRecord(1, "project", {"work"}, "s1", a1)
                   ELSE SentRecord(2, "mood", {"project"}, "s2", a2)]
    /\ _today_count = <<>>
    /\ _last_explore_time = NoneTime
    /\ _explore_lock = "free"
    /\ pc = [t \in Callers |-> "idle"]
    /\ today = [t \in Callers |-> 0]
    /\ today_count = [t \in Callers |-> 0]
    /\ opportunities = [t \in Callers |-> <<>>]
    /\ idx = [t \in Callers |-> 0]
    /\ sent_messages = [t \in Callers |-> <<>>]
    /\ delivered = <<>>
    /\ probe = NoProbe
    /\ run = NoRun
    /\ OtherInit
    /\ HeartbeatInit(AllProvided)

\* should_send(candidate): the verdict, the candidate as the call leaves it
\* (expired and saved when the reminder count is used up) and as it was given
ShouldSendCall(c) ==
    /\ probe.ret = "none"
    /\ IF should_send_expires(c)
       THEN LET expired == [c EXCEPT !.status = "expired"]
            IN /\ probe' = [ret |-> "false", cand |-> expired, arg |-> c]
               /\ store_opportunities' = _save(store_opportunities, expired)
       ELSE /\ probe' = [ret |-> IF should_send(c) THEN "true" ELSE "false",
                         cand |-> c, arg |-> c]
            /\ UNCHANGED store_opportunities
    /\ UNCHANGED <<clockVars, config, run, otherVars, store_sent, svcVars, tickVars, delivered,
                   schedVars>>

NextTracker == \E c \in Candidates : ShouldSendCall(c)

SpecTracker == InitTracker /\ [][NextTracker]_vars

(***************************************************************************)
(* should_send on a candidate that has used up its reminders, between the  *)
(* ticks of the dispatch loop.                                             *)
(***************************************************************************)
\* pending candidates around the limit of should_send, line 45: an
\* Opportunity with a fresh id whose reminder_count was set by its maker
ExhaustedCandidates ==
    { [Opportunity(FreshId, tpl, now) EXCEPT !.reminder_count = r] :
          tpl \in Templates, r \in (MaxReminders - 1)..(MaxReminders + 1) }

\* tracker.should_send(candidate), called while no tick is under way
ShouldSendExhausted ==
    /\ pc["scheduler"] = "idle"
    /\ FreshId <= MaxOpps
    /\ \E c \in ExhaustedCandidates : ShouldSendCall(c)

InitExhausted == Init /\ config.enabled

NextExhausted ==
    \/ TickStep("scheduler")
    \/ \E d \in Jumps : Advance(d)
    \/ ShouldSendExhausted

SpecExhausted == InitExhausted /\ [][NextExhausted]_vars

(***************************************************************************)
(* The dispatch loop of an instance whose exploration is due at every tick *)
(* (explore_interval_minutes = 0).                                         *)
(***************************************************************************)
InitAlwaysDue ==
    /\ now = 0
    /\ advances = 0
    /\ config \in [enabled : BOOLEAN, follow_up_enabled : BOOLEAN,
                   explore_interval_minutes : {0}]
    /\ store_opportunities = <<>>
    /\ store_sent = <<>>
    /\ _today_count = <<>>
    /\ _last_explore_time = NoneTime
    /\ _explore_lock = "free"
    /\ pc = [t \in Callers |-> "idle"]
    /\ today = [t \in Callers |-> 0]
    /\ today_count = [t \in Callers |-> 0]
    /\ opportunities = [t \in Callers |-> <<>>]
    /\ idx = [t \in Callers |-> 0]
    /\ sent_messages = [t \in Callers |-> <<>>]
    /\ delivered = <<>>
    /\ probe = NoProbe
    /\ run = NoRun
    /\ OtherInit
    /\ HeartbeatInit(AllProvided)

SpecAlwaysDue == InitAlwaysDue /\ [][Next]_vars

(***************************************************************************)

(* ExplorerAgent (memory/explorer_agent.py): run, the tool-calling loop    *)
(***************************************************************************)
\* config.explorer_max_iterations, at most, of the instances under check
MaxIterations == 2
\* tool calls in one response of the language model, at most
MaxToolCalls == 2

\* a key the language model left out of the arguments of a tool call
Absent == "<absent>"

\* OpportunitySource: the values of the enum
OpportunitySources == {"memory_user", "memory_ai", "dreamlife", "follow_up"}

\* arguments of create_opportunity as the language model may write them:
\* complete, without the optional source, without a required key, or with a
\* source the enum does not have
CreateArguments ==
    LET full == [title |-> "project", content |-> "c", session_id |-> "s1",
                 source |-> "memory_user", priority |-> 80,
                 tags |-> {"project"}]
    IN { full,
         [full EXCEPT !.title = "mood", !.source = Absent, !.priority = 40,
                      !.tags = {"mood"}],
         [full EXCEPT !.title = Absent],
         [full EXCEPT !.content = Absent],
         [full EXCEPT !.session_id = Absent],
         [full EXCEPT !.source = "bogus"] }

\* response.tool_calls: what one response of the language model may ask for
ToolCalls ==
    {[name |-> "memory_search", arguments |-> [query |-> "q"]]}
        \cup {[name |-> "create_opportunity", arguments |-> a] :
                  a \in CreateArguments}

\* the responses of provider.chat: no tool call, or up to MaxToolCalls
Responses ==
    UNION {[1..n -> ToolCalls] : n \in 0..MaxToolCalls}

\* CreateOpportunityTool.execute: the arguments echoed as JSON, with the
\* defaults of the signature for what was left out
CreateOpportunityTool_execute(arguments) ==
    [json |-> TRUE, success |-> TRUE,
     opportunity |->
         [arguments EXCEPT
              !.source = IF @ = Absent THEN "memory_user" ELSE @]]

\* a result that json.loads does not take
NotJson == [json |-> FALSE]

\* ToolRegistry.execute(name, arguments): the result of the tool as a
\* string. A call that lacks a required argument does not raise: its result
\* is an error text.
ToolRegistry_execute(tool_call) ==
    IF tool_call.name = "create_opportunity"
    THEN IF \/ tool_call.arguments.title = Absent
            \/ tool_call.arguments.content = Absent
            \/ tool_call.arguments.session_id = Absent
         THEN NotJson
         ELSE CreateOpportunityTool_execute(tool_call.arguments)
    ELSE [json |-> TRUE, success |-> TRUE]

\* the value _parse_opportunity_result gives for a result it drops
None == [id |-> 0]

\* _parse_opportunity_result that takes the source as it comes
_parse_opportunity_result_any_source(result, id) ==
    IF ~result.json
    THEN None
    ELSE IF ~result.success
         THEN None
         ELSE Opportunity(id, result.opportunity, now)

\* _parse_opportunity_result: None for what json.loads, the "success" flag,
\* a required key or the OpportunitySource enum refuses; otherwise the
\* Opportunity, under a new id
_parse_opportunity_result(result, id) ==
    IF ~result.json
    THEN None
    ELSE IF ~result.success
         THEN None
         ELSE IF \/ result.opportunity.title = Absent
                 \/ result.opportunity.content = Absent
                 \/ result.opportunity.session_id = Absent
                 \/ result.opportunity.source \notin OpportunitySources
              THEN None
              ELSE Opportunity(id, result.opportunity, now)

\* run, lines 118-136: the locals before the loop; max_iterations is read
\* from the configuration
RunStart ==
    /\ run.pc = "off"
    /\ \E m \in 0..MaxIterations :
           run' = [NoRun EXCEPT !.pc = "loop", !.max_iterations = m]
    /\ UNCHANGED <<clockVars, config, otherVars, storeVars, svcVars, tickVars, delivered,
                   probe, schedVars>>

\* the loop test with `<=` for `<`
LoopGoesOnInclusive == run.iteration <= run.max_iterations

\* run, line 138: while iteration < max_iterations
LoopGoesOn == run.iteration < run.max_iterations

\* run, lines 139-151: one more iteration; provider.chat answers, and a
\* response without tool calls ends the loop
Chat(response) ==
    /\ run.pc = "loop"
    /\ LoopGoesOn
    /\ run' = [run EXCEPT !.iteration = @ + 1, !.chat_calls = @ + 1,
                          !.response = response,
                          !.pc = IF response = <<>> THEN "done" ELSE "tools"]
    /\ UNCHANGED <<clockVars, config, otherVars, storeVars, svcVars, tickVars, delivered,
                   probe, schedVars>>

\* run, line 141: provider.chat raises, and the exception leaves run with
\* its locals
ChatRaises ==
    /\ run.pc = "loop"
    /\ LoopGoesOn
    /\ run' = [run EXCEPT !.iteration = @ + 1, !.chat_calls = @ + 1,
                          !.opportunities = <<>>, !.pc = "raised"]
    /\ UNCHANGED <<clockVars, config, otherVars, storeVars, svcVars, tickVars, delivered,
                   probe, schedVars>>

\* run with a return of [] where the iteration cap ends the loop
LoopExitEmpty ==
    /\ run.pc = "loop"
    /\ ~LoopGoesOn
    /\ run' = [run EXCEPT !.pc = "done", !.opportunities = <<>>]
    /\ UNCHANGED <<clockVars, config, otherVars, storeVars, svcVars, tickVars, delivered,
                   probe, schedVars>>

\* run, lines 138 and 186-190: the cap is reached; return opportunities
LoopExit ==
    /\ run.pc = "loop"
    /\ ~LoopGoesOn
    /\ run' = [run EXCEPT !.pc = "done"]
    /\ UNCHANGED <<clockVars, config, otherVars, storeVars, svcVars, tickVars, delivered,
                   probe, schedVars>>

\* run, lines 154-184: the next tool call of the response is executed and,
\* if it is a create_opportunity, its result parsed; what parses is
\* collected; after the last tool call the loop goes round
ToolCall ==
    /\ run.pc = "tools"
    /\ LET tool_call == Head(run.response)
           result == ToolRegistry_execute(tool_call)
           opp == IF tool_call.name = "create_opportunity"
                  THEN _parse_opportunity_result(
                           result, Len(run.opportunities) + 1)
                  ELSE None
           rest == Tail(run.response)
       IN run' = [run EXCEPT
                     !.opportunities = IF opp # None THEN Append(@, opp) ELSE @,
                     !.dropped_after =
                         IF tool_call.name = "create_opportunity" /\ opp = None
                         THEN Len(run.opportunities) ELSE @,
                     !.response = rest,
                     !.pc = IF rest = <<>> THEN "loop" ELSE "tools"]
    /\ UNCHANGED <<clockVars, config, otherVars, storeVars, svcVars, tickVars, delivered,
                   probe, schedVars>>

\* one step of run once it was called
RunStep ==
    \/ \E response \in Responses : Chat(response)
    \/ ChatRaises
    \/ LoopExit
    \/ ToolCall

NextExplorer ==
    \/ RunStart
    \/ \E response \in Responses : Chat(response)
    \/ ChatRaises
    \/ LoopExit
    \/ ToolCall

SpecExplorer == Init /\ [][NextExplorer]_vars

\* a call that is not suspended for ever goes on: awaits return or raise
FairExplorer == WF_vars(RunStep)

SpecExplorerFair == SpecExplorer /\ FairExplorer

(***************************************************************************)

(* create_follow_up called on its own.                                     *)
(***************************************************************************)
\* uuid.uuid4() in a store that was not filled in the order of the ids: an
\* id none of the opportunities in `used` has
uuid4(used) == CHOOSE n \in 1..(Cardinality(used) + 1) : n \notin used

\* the new_context handed to create_follow_up
Contexts == {"", "how did it go"}

\* the originals: any opportunity, in memory only or loaded from the sent
\* partition
Originals ==
    Candidates \cup {_load_from_uri(store_sent, i) : i \in DOMAIN store_sent}

\* tracker.create_follow_up(original, new_context): the child returned, the
\* arguments as given and the original as the call leaves it
CreateFollowUpCall(original, new_context) ==
    /\ probe.ret = "none"
    /\ LET id == uuid4(DOMAIN store_opportunities \cup DOMAIN store_sent
                           \cup {original.id})
           follow_up == create_follow_up(original, new_context, id)
       IN /\ store_opportunities' = _save(store_opportunities, follow_up)
          /\ probe' = [ret |-> "follow_up", cand |-> follow_up,
                       arg |-> original, new_context |-> new_context,
                       after |-> original]
    /\ UNCHANGED <<clockVars, config, run, otherVars, store_sent, svcVars, tickVars, delivered,
                   schedVars>>

NextFollowUp ==
    \E original \in Originals, new_context \in Contexts :
        CreateFollowUpCall(original, new_context)

SpecFollowUp == InitTracker /\ [][NextFollowUp]_vars

(***************************************************************************)

(* Claims                                                                  *)
(***************************************************************************)
\* the deliveries of opportunity id, and those made on a day
DeliveriesOf(id) == {i \in 1..Len(delivered) : delivered[i].id = id}
DeliveriesOn(day) == {i \in 1..Len(delivered) : delivered[i].at = day}

\* C1: over ticks that follow one another and each run to completion, the
\* messages delivered within one calendar day never exceed max_per_day.
C1_DailyLimit ==
    \A i \in 1..Len(delivered) :
        Cardinality(DeliveriesOn(delivered[i].at)) <= MaxPerDay

\* C2: with two overlapping ticks, at most one exploration pass is in
\* progress at any time, and a caller that queued behind the lock never
\* explores once it has the lock: it checks again and skips the pass.
C2_ExploreAtMostOnce ==
    [][/\ \A t1, t2 \in Callers :
              pc'[t1] = "explore" /\ pc'[t2] = "explore" => t1 = t2
       /\ \A t \in Callers : pc[t] = "lock" => pc'[t] # "explore"]_vars

\* C2, its case: one caller has explored and released the lock while the
\* other, which also found exploration due, is queued behind it
C2_Witness ==
    \E t1, t2 \in Callers :
        /\ pc[t2] = "lock"
        /\ pc[t1] \notin {"idle", "explore", "lock"}
        /\ _explore_lock = "free"
        /\ _last_explore_time = now

\* a sent opportunity of the last 30 days that the candidate matches: a
\* shared tag or the same title
MatchesOf(c) ==
    {i \in DOMAIN store_sent :
        /\ now - store_sent[i].sent_at <= DedupWindowDays
        /\ \/ \E tag \in c.tags : tag \in store_sent[i].tags
           \/ c.title = store_sent[i].title}

\* C3: should_send rejects a follow-up candidate that matches an opportunity
\* sent within the last 30 days fewer than follow_up_interval_days days ago.
C3_FollowUpNotDueRejected ==
    (/\ probe.ret # "none"
     /\ probe.cand.source = "follow_up"
     /\ \E i \in MatchesOf(probe.cand) :
            now - store_sent[i].sent_at < probe.cand.follow_up_interval_days)
    => probe.ret = "false"

\* C4: should_send accepts a pending follow-up candidate with fewer than 3
\* reminders when every match of the last 30 days was sent at least
\* follow_up_interval_days days ago.
C4_FollowUpDueAccepted ==
    (/\ probe.ret # "none"
     /\ probe.cand.source = "follow_up"
     /\ probe.cand.status = "pending"
     /\ probe.cand.reminder_count < MaxReminders
     /\ \A i \in MatchesOf(probe.cand) :
            now - store_sent[i].sent_at >= probe.cand.follow_up_interval_days)
    => probe.ret = "true"

\* C5: should_send returns false for every candidate that is not a follow-up
\* and matches an opportunity sent within the last 30 days, whatever its
\* priority, status or reminder count.
C5_DuplicateSuppressed ==
    (/\ probe.ret # "none"
     /\ probe.cand.source # "follow_up"
     /\ MatchesOf(probe.cand) # {})
    => probe.ret = "false"

\* C5, its case: a pending candidate of priority 100 with no reminders, not a
\* follow-up, matching by its title alone an opportunity sent exactly 30 days
\* ago, has been rejected
C5_Witness ==
    /\ probe.ret = "false"
    /\ probe.cand.source # "follow_up"
    /\ probe.cand.priority = 100
    /\ probe.cand.status = "pending"
    /\ probe.cand.reminder_count = 0
    /\ probe.cand.tags = {}
    /\ MatchesOf(probe.cand) # {}
    /\ \A i \in MatchesOf(probe.cand) :
           now - store_sent[i].sent_at = DedupWindowDays

\* a caller that has its listing and has not yet looked at any of it
FreshListing(t) ==
    pc[t] = "loop" /\ idx[t] = 1 /\ sent_messages[t] = <<>>

\* the stored opportunities with status pending
StoredPending ==
    {i \in DOMAIN store_opportunities : store_opportunities[i].status = "pending"}

\* the listing holds exactly the stored pending opportunities, each once,
\* as they are stored
ListsExactlyPending(t) ==
    /\ Len(opportunities[t]) = Cardinality(StoredPending)
    /\ \A i \in StoredPending :
           \E k \in 1..Len(opportunities[t]) :
               opportunities[t][k] = store_opportunities[i]

C7_LeftPendingNeverListed ==
    \A t \in Callers :
        FreshListing(t) =>
            \A k \in 1..Len(opportunities[t]) :
                /\ opportunities[t][k].id \notin DOMAIN store_sent
                /\ store_opportunities[opportunities[t][k].id].status # "expired"

\* C8: sent_at of an opportunity is stamped exactly once: mark_sent never
\* stamps an opportunity that has been marked sent before.
C8_SentAtStampedOnce ==
    [][\A t \in Callers :
           pc[t] = "mark" /\ pc'[t] # "mark" =>
               Current(t).id \notin DOMAIN store_sent]_vars

\* C9: no opportunity is delivered more than 3 times, and none is expired
\* while its reminder_count is below 3.
C9_ExpiredAtThreeSends ==
    /\ \A i \in DOMAIN store_opportunities :
           Cardinality(DeliveriesOf(i)) <= MaxReminders
    /\ \A i \in DOMAIN store_opportunities :
           store_opportunities[i].status = "expired" =>
               store_opportunities[i].reminder_count >= MaxReminders

\* the times an opportunity or the chain of parents it follows up on was sent
RECURSIVE LineageSends(_)
LineageSends(id) ==
    Cardinality(DeliveriesOf(id))
    + (IF store_opportunities[id].parent_id = 0
       THEN 0
       ELSE LineageSends(store_opportunities[id].parent_id))

\* the record of an opportunity that was written last
LatestRecord(id) ==
    IF id \in DOMAIN store_sent THEN store_sent[id] ELSE store_opportunities[id]

\* C10: between ticks, reminder_count of every opportunity equals the number
\* of times it or its lineage has been sent; a follow-up of a parent sent once
\* does not start from zero.
C10_ReminderCountIsLineageSends ==
    (\A t \in Callers : pc[t] = "idle") =>
        \A i \in DOMAIN store_opportunities :
            LatestRecord(i).reminder_count = LineageSends(i)

\* C11: when the sink fails for an opportunity the failure is caught as "send
\* did not happen": the stores and the dispatcher's state are left as they
\* are (the opportunity stays pending, no mark_sent, no follow-up) and the
\* tick goes on with the next opportunity.
C11_SinkFailureCaught ==
    [][\A t \in Callers :
           (/\ pc[t] = "send"
            /\ delivered' = delivered
            /\ aborted'.kind = "send") =>
               /\ UNCHANGED <<storeVars, svcVars>>
               /\ pc'[t] = "loop"
               /\ idx'[t] = idx[t] + 1
               /\ today_count'[t] = today_count[t]]_vars

\* C12: an error raised inside the tick of one loop does not leave that loop
\* (its task goes on) and neither stops nor cancels the other two loops.
C12_TickErrorContained ==
    [][\A l \in Loops :
           (loop[l] \in TickStates /\ tick_error'[l]) =>
               /\ loop'[l] = "sleep"
               /\ _running' = _running
               /\ \A k \in Loops \ {l} : loop'[k] = loop[k]]_vars

\* C12, its case: the tick of one loop has raised while another loop is in
\* its tick, and a third one sleeps
C12_Witness ==
    \E l, k, m \in Loops :
        /\ tick_error[l] /\ loop[l] = "sleep"
        /\ loop[k] \in TickStates
        /\ m \notin {l, k} /\ loop[m] = "sleep"

\* C13: stop() does not cut short a tick that is under way: whenever no tick
\* is under way, every message that was delivered has been marked sent and
\* counted for its day.
C13_InFlightTickCompletes ==
    pc["scheduler"] = "idle" =>
        /\ \A i \in 1..Len(delivered) : delivered[i].id \in DOMAIN store_sent
        /\ TodayCountGet(now) = Len(delivered)

\* C14: after stop() no loop starts a tick until start() is called again: a
\* tick starts only while _running.
C14_NoTickAfterStop ==
    [][\A l \in Loops :
           (loop[l] \notin TickStates /\ loop'[l] \in TickStates) =>
               _running /\ _running']_vars

\* C14, its case: stop() has been called on a running scheduler whose loops
\* had all been started, one of them after a tick that raised
C14_Witness ==
    /\ ~_running
    /\ \A l \in Loops : loop[l] = "done"
    /\ \E l \in Loops : tick_error[l]

\* C15: while the scheduler is running, a loop whose tick failed starts
\* another tick, whatever the ticks before did.
C15_FailingTickRestarts ==
    \A l \in Loops :
        (tick_error[l] /\ _running) ~> (loop[l] \in TickStates \/ ~_running)

\* C15, its case: the tick of a loop has raised for the second time running
\* and the loop sleeps again
C15_Witness ==
    \E l \in Loops : tick_error[l] /\ _running /\ loop[l] = "sleep"

\* C16: a model or store call that fails during the exploration step is
\* caught as "no result" and the tick goes on: every step that leaves the
\* exploration step arrives at the listing of the pending opportunities,
\* with the pending partition as the exploration left it.
C16_ExploreFailureCaught ==
    [][\A t \in Callers :
           (pc[t] = "explore" /\ pc'[t] # "explore") =>
               /\ pc'[t] = "list"
               /\ UNCHANGED storeVars]_vars

\* C17: when the model strategy raises while the message of an accepted
\* opportunity is composed, the opportunity is delivered all the same (with
\* the template's message) and the tick goes on to mark it sent.
C17_ComposeFallsBack ==
    [][\A t \in Callers :
           (pc[t] = "send" /\ aborted'.kind = "compose") =>
               /\ delivered' =
                      Append(delivered, [id |-> Current(t).id, at |-> now])
               /\ pc'[t] = "mark"]_vars

\* C18: should_send returns true only for a candidate that is pending and has
\* fewer than MaxReminders reminders; a candidate of any other status is
\* rejected and left as it was given: neither the object nor the store is
\* written.
C18_OnlyPendingAccepted ==
    probe.ret # "none" =>
        /\ probe.ret = "true" =>
               /\ probe.arg.status = "pending"
               /\ probe.arg.reminder_count < MaxReminders
        /\ probe.arg.status # "pending" =>
               /\ probe.ret = "false"
               /\ probe.cand = probe.arg
               /\ store_opportunities = <<>>

\* C18, its case: a candidate that is not pending, has used up its reminders
\* and matches nothing in the sent partition has been rejected
C18_Witness ==
    /\ probe.ret = "false"
    /\ probe.arg.status \in {"sent", "ignored", "expired"}
    /\ probe.arg.reminder_count >= MaxReminders
    /\ ~DuplicateFound(probe.arg)

\* C19: a pending candidate with MaxReminders reminders or more that matches
\* nothing in the sent partition is rejected by should_send and is, after
\* the call, stored with status expired; and no opportunity whose stored
\* record is expired is delivered.
C19_ExhaustedExpires ==
    [][/\ (/\ probe.ret = "none" /\ probe'.ret # "none"
            /\ probe'.arg.status = "pending"
            /\ probe'.arg.reminder_count >= MaxReminders
            /\ ~DuplicateFound(probe'.arg)) =>
               /\ probe'.ret = "false"
               /\ probe'.arg.id \in DOMAIN store_opportunities'
               /\ store_opportunities'[probe'.arg.id].status = "expired"
       /\ delivered' # delivered =>
               LET id == delivered'[Len(delivered')].id
               IN ~(/\ id \in DOMAIN store_opportunities
                    /\ store_opportunities[id].status = "expired")]_vars

\* C19, its case: a candidate with its reminders used up was rejected and is
\* stored as expired, and an opportunity explored after that has been
\* delivered by a tick that listed the store
C19_Witness ==
    /\ probe.ret = "false"
    /\ probe.arg.status = "pending"
    /\ probe.arg.reminder_count >= MaxReminders
    /\ probe.arg.id \in DOMAIN store_opportunities
    /\ store_opportunities[probe.arg.id].status = "expired"
    /\ \E i \in 1..Len(delivered) : delivered[i].id > probe.arg.id

\* the follow-ups in a pending partition: the records with a parent_id
FollowUps(dir) == {i \in DOMAIN dir : dir[i].parent_id # 0}

\* C20: every opportunity with a parent_id refers to an opportunity that has
\* been marked sent, and had been when the child was created: a follow-up is
\* stored only for a parent whose record in the sent partition has status
\* sent and a sent_at not later than the child's created_at.
C20_FollowUpAfterMarkSent ==
    [][/\ \A i \in FollowUps(store_opportunities') :
              LET p == store_opportunities'[i].parent_id
              IN /\ p \in DOMAIN store_sent'
                 /\ store_sent'[p].status = "sent"
       /\ \A i \in FollowUps(store_opportunities')
                        \ DOMAIN store_opportunities :
              LET p == store_opportunities'[i].parent_id
              IN /\ p \in DOMAIN store_sent
                 /\ store_sent[p].status = "sent"
                 /\ store_sent[p].sent_at # NoneTime
                 /\ store_sent[p].sent_at <= store_opportunities'[i].created_at
                 /\ \E t \in Callers :
                        /\ pc[t] = "follow"
                        /\ Current(t).id = p
                        /\ Current(t).status = "sent"]_vars

\* C20, its case: a follow-up of a follow-up is stored: its parent was itself
\* created for a sent opportunity and was then sent
C20_Witness ==
    \E i \in FollowUps(store_opportunities) :
        LET p == store_opportunities[i].parent_id
        IN /\ p \in FollowUps(store_opportunities)
           /\ p \in DOMAIN store_sent
           /\ store_sent[p].status = "sent"

\* the follow-ups stored for opportunity p
ChildrenOf(p) ==
    {i \in DOMAIN store_opportunities : store_opportunities[i].parent_id = p}

\* a delivery of opportunity p whose iteration of the loop has not yet
\* reached the follow-up
AwaitsFollowUp(p) ==
    \E t \in Callers : pc[t] \in {"mark", "follow"} /\ Current(t).id = p

\* C21: with follow-ups enabled every delivery of an opportunity adds exactly
\* one follow-up of it, with empty content, to the pending partition; with
\* follow-ups disabled none is added; an opportunity that was not delivered
\* (should_send rejected it) has no follow-up.
C21_OneFollowUpPerDelivery ==
    \A p \in 1..MaxOpps :
        /\ Cardinality(ChildrenOf(p)) =
               IF config.follow_up_enabled
               THEN Cardinality(DeliveriesOf(p))
                        - (IF AwaitsFollowUp(p) THEN 1 ELSE 0)
               ELSE 0
        /\ \A i \in ChildrenOf(p) :
               /\ store_opportunities[i].content = ""
               /\ store_opportunities[i].source = "follow_up"

\* C21, its case: a tick has ended in which one opportunity was delivered
\* and got its follow-up, and another was listed and rejected and got none
C21_Witness ==
    /\ config.follow_up_enabled
    /\ pc["scheduler"] = "idle"
    /\ \E p, q \in DOMAIN store_opportunities :
           /\ DeliveriesOf(p) # {} /\ Cardinality(ChildrenOf(p)) = 1
           /\ store_opportunities[q].parent_id = 0
           /\ DeliveriesOf(q) = {} /\ ChildrenOf(q) = {}
           /\ q \notin ChildrenOf(p)

\* the opportunities a tick has sent so far: mark_sent has set their status
\* in the tick's list
SentInTick(t) ==
    {k \in 1..(idx[t] - 1) : opportunities[t][k].status = "sent"}

\* C22: mark_sent writes the opportunity to the sent partition with status
\* sent, sent_at = now and reminder_count one higher, so that it is among the
\* recently sent at once; a candidate that is not a follow-up and shares a
\* tag or the title with an opportunity sent earlier in the same tick is not
\* accepted.
C22_MarkSentSuppressesLater ==
    [][\A t \in Callers :
           /\ (pc[t] = "mark" /\ pc'[t] # "mark") =>
                  LET o == Current(t)
                  IN /\ o.id \in DOMAIN store_sent'
                     /\ store_sent'[o.id] =
                            to_dict([o EXCEPT !.status = "sent",
                                              !.sent_at = now,
                                              !.reminder_count =
                                                  o.reminder_count + 1])
                     /\ \E s \in _get_recent_sent(DedupWindowDays)' :
                            s.id = o.id
           /\ (/\ pc[t] = "loop"
               /\ idx[t] <= Len(opportunities[t])
               /\ Current(t).source # "follow_up"
               /\ \E k \in SentInTick(t) :
                      _is_duplicate(Current(t), opportunities[t][k])) =>
                  pc'[t] # "send"]_vars

\* C22, its case: in one tick an opportunity was sent and a later candidate,
\* not a follow-up, with its title or one of its tags was passed over
C22_Witness ==
    \E t \in Callers :
        \E k \in SentInTick(t) :
            \E j \in (k + 1)..(idx[t] - 1) :
                /\ opportunities[t][j].status = "pending"
                /\ opportunities[t][j].source # "follow_up"
                /\ _is_duplicate(opportunities[t][j], opportunities[t][k])
                /\ DeliveriesOf(opportunities[t][j].id) = {}
                /\ Len(delivered) = 1

\* C23: create_follow_up(original, new_context) returns a new opportunity
\* with an id no opportunity has, source follow_up, status pending,
\* parent_id = original.id, content = new_context, and the title, priority,
\* tags, follow_up_interval_days and session_id of the original; it adds
\* that opportunity, and nothing else, to the pending partition; the
\* original and the sent partition are left as they were.
C23_CreateFollowUpEffect ==
    [][(probe.ret = "none" /\ probe'.ret = "follow_up") =>
           LET child == probe'.cand
               original == probe'.arg
           IN /\ child.id # original.id
              /\ child.id \notin DOMAIN store_opportunities
              /\ child.id \notin DOMAIN store_sent
              /\ child.source = "follow_up"
              /\ child.status = "pending"
              /\ child.parent_id = original.id
              /\ child.content = probe'.new_context
              /\ child.title = original.title
              /\ child.priority = original.priority
              /\ child.tags = original.tags
              /\ child.follow_up_interval_days =
                     original.follow_up_interval_days
              /\ child.session_id = original.session_id
              /\ DOMAIN store_opportunities' =
                     DOMAIN store_opportunities \cup {child.id}
              /\ _load_from_uri(store_opportunities', child.id) = child
              /\ \A i \in DOMAIN store_opportunities :
                     store_opportunities'[i] = store_opportunities[i]
              /\ store_sent' = store_sent
              /\ probe'.after = original]_vars

\* C23, its case: a follow-up with a context of its own was made for an
\* original that is in the sent partition, under an id between those in use
C23_Witness ==
    /\ probe.ret = "follow_up"
    /\ probe.new_context # ""
    /\ probe.arg.id \in DOMAIN store_sent
    /\ probe.arg.tags # {}
    /\ DOMAIN store_sent = {1}
    /\ probe.cand.id = 2

\* C24: pulse_check changes nothing when the feature is disabled or when
\* today's count has reached max_per_day at its start, exploration due or
\* not: from a state between ticks in which one of the two holds, no step
\* explores, lists, delivers or writes a store or a counter (only the clock
\* moves), and the result is empty.
C24_NoOpWhenDisabledOrOverQuota ==
    [][(/\ pc["scheduler"] = "idle"
        /\ \/ ~config.enabled
           \/ (IF now \in DOMAIN _today_count THEN _today_count[now] ELSE 0)
                  >= MaxPerDay) =>
           /\ UNCHANGED <<storeVars, svcVars, tickVars, delivered>>
           /\ sent_messages'["scheduler"] = <<>>]_vars

\* C24, its case: between two ticks of an enabled instance today's count has
\* reached max_per_day while exploration is due and the Explorer has more to
\* hand over
C24_Witness ==
    /\ pc["scheduler"] = "idle"
    /\ config.enabled
    /\ TodayCountGet(now) >= MaxPerDay
    /\ _last_explore_time # NoneTime
    /\ _should_explore
    /\ Cardinality(Explored) < MaxExplored

\* C25: run terminates whatever the language model answers: it makes at most
\* max_iterations calls of provider.chat, a response without tool calls ends
\* it at once, and once called it returns (or raises).
C25_RunTerminates ==
    /\ [](run.chat_calls <= run.max_iterations)
    /\ [][(/\ run.pc = "loop"
           /\ run'.chat_calls = run.chat_calls + 1
           /\ run'.pc # "raised"
           /\ run'.response = <<>>) => run'.pc = "done"]_vars
    /\ (run.pc \in {"loop", "tools"}) ~> (run.pc \in {"done", "raised"})

\* C25, its case: the language model asked for tools in every response and
\* run returned after max_iterations calls
C25_Witness ==
    /\ run.pc = "done"
    /\ run.max_iterations = MaxIterations
    /\ run.chat_calls = MaxIterations
    /\ Len(run.opportunities) = MaxIterations * MaxToolCalls

\* a create_opportunity call whose arguments have the required keys and a
\* source of the enum, or none
WellFormed(tool_call) ==
    /\ tool_call.name = "create_opportunity"
    /\ tool_call.arguments.title # Absent
    /\ tool_call.arguments.content # Absent
    /\ tool_call.arguments.session_id # Absent
    /\ tool_call.arguments.source \in OpportunitySources \cup {Absent}

\* C26: run returns every opportunity of a well-formed create_opportunity
\* call made before the loop ended, in the order of the calls, whichever way
\* the loop ended: each such call appends its opportunity to the list, and
\* no step up to the return, by a response without tool calls or by the cap,
\* takes anything from the list or reorders it.
C26_PartialResultsReturned ==
    [][/\ (run.pc = "tools" /\ WellFormed(Head(run.response))) =>
              LET a == Head(run.response).arguments
                  n == Len(run.opportunities)
              IN /\ Len(run'.opportunities) = n + 1
                 /\ run'.opportunities[n + 1].title = a.title
                 /\ run'.opportunities[n + 1].session_id = a.session_id
                 /\ run'.opportunities[n + 1].priority = a.priority
                 /\ run'.opportunities[n + 1].tags = a.tags
                 /\ run'.opportunities[n + 1].status = "pending"
                 /\ run'.opportunities[n + 1].source =
                        IF a.source = Absent THEN "memory_user" ELSE a.source
       /\ (run.pc \in {"loop", "tools"} /\ run'.pc # "raised") =>
              /\ Len(run'.opportunities) >= Len(run.opportunities)
              /\ SubSeq(run'.opportunities, 1, Len(run.opportunities)) =
                     run.opportunities]_vars

\* C26, its case: run has returned, ended by the cap, with the opportunities
\* of every call of every response, in the order they were asked for
C26_Witness ==
    /\ run.pc = "done"
    /\ run.chat_calls = MaxIterations
    /\ Len(run.opportunities) = MaxIterations * MaxToolCalls
    /\ run.opportunities[1].title = "mood"
    /\ run.opportunities[2].title = "project"

\* C27: a create_opportunity call with a malformed payload (a result that
\* does not parse, a required key missing, a source the enum does not have)
\* adds no opportunity and does not end the run: the list is left as it was
\* and the loop goes on with the next tool call or the next iteration.
C27_MalformedPayloadDropped ==
    [][(/\ run.pc = "tools"
        /\ Head(run.response).name = "create_opportunity"
        /\ ~WellFormed(Head(run.response))) =>
           /\ run'.opportunities = run.opportunities
           /\ run'.response = Tail(run.response)
           /\ run'.pc = IF Tail(run.response) = <<>> THEN "loop" ELSE "tools"
           /\ run'.iteration = run.iteration]_vars

\* C27, its case: run has returned opportunities captured before and after a
\* malformed call that was dropped
C27_Witness ==
    /\ run.pc = "done"
    /\ run.dropped_after >= 1
    /\ Len(run.opportunities) > run.dropped_after

\* C28: a tick dispatches in the order of its listing: when it delivers an
\* opportunity, every opportunity of its listing with a strictly higher
\* priority has been looked at before (delivered, or rejected by
\* should_send); and the listing holds every stored pending opportunity,
\* those saved by the tick's own exploration included.
C28_DispatchInPriorityOrder ==
    [][\A t \in Callers :
           /\ (pc[t] = "send" /\ delivered' # delivered) =>
                  \A k \in 1..Len(opportunities[t]) :
                      opportunities[t][k].priority > Current(t).priority =>
                          k < idx[t]
           /\ (pc[t] = "list" /\ pc'[t] = "loop") =>
                  \A i \in DOMAIN store_opportunities :
                      store_opportunities[i].status = "pending" =>
                          \E k \in 1..Len(opportunities'[t]) :
                              opportunities'[t][k].id = i]_vars

\* C28, its case: a tick has delivered an opportunity that its own
\* exploration saved, after it had looked at and rejected one of higher
\* priority that stood before it in the listing
C28_Witness ==
    \E t \in Callers :
        /\ pc[t] = "mark"
        /\ idx[t] > 1
        /\ Current(t).created_at = today[t]
        /\ _last_explore_time = today[t]
        /\ \E k \in 1..(idx[t] - 1) :
               /\ opportunities[t][k].priority > Current(t).priority
               /\ opportunities[t][k].status = "pending"
               /\ opportunities[t][k].created_at < today[t]

\* the time since the exploration pass that last completed, if there is one
SinceLastExplore == now - _last_explore_time

\* C29 as stated: a tick runs the Explorer only if no pass has completed yet
\* or the time since the last completed pass exceeds the interval; a pass
\* that fails leaves the time of the last completed pass as it was; and a
\* pass that completes does so at least the interval after the one before.
C29_ExploreOnlyAfterInterval ==
    [][\A t \in Callers :
           /\ (pc[t] # "explore" /\ pc'[t] = "explore") =>
                  \/ _last_explore_time = NoneTime
                  \/ SinceLastExplore > config.explore_interval_minutes
           /\ (pc[t] = "explore" /\ pc'[t] = "idle") =>
                  _last_explore_time' = _last_explore_time
           /\ (pc[t] = "explore" /\ pc'[t] = "list") =>
                  /\ _last_explore_time' = now
                  /\ \/ _last_explore_time = NoneTime
                     \/ SinceLastExplore >= config.explore_interval_minutes]_vars

\* C29, amended: the same with "is at least the interval" for "exceeds the
\* interval": a tick runs the Explorer only if no pass has completed yet or
\* the time since the last completed pass is the interval or more.
C29_ExploreOnlyAtInterval ==
    [][\A t \in Callers :
           /\ (pc[t] # "explore" /\ pc'[t] = "explore") =>
                  \/ _last_explore_time = NoneTime
                  \/ SinceLastExplore >= config.explore_interval_minutes
           /\ (pc[t] = "explore" /\ pc'[t] = "idle") =>
                  _last_explore_time' = _last_explore_time
           /\ (pc[t] = "explore" /\ pc'[t] = "list") =>
                  /\ _last_explore_time' = now
                  /\ \/ _last_explore_time = NoneTime
                     \/ SinceLastExplore >= config.explore_interval_minutes]_vars

\* C29, its case: a pass has completed, a later pass failed, and the
\* Explorer runs again with the time of the completed pass still standing
C29_Witness ==
    /\ pc["scheduler"] = "explore"
    /\ aborted.kind = "explore"
    /\ _last_explore_time # NoneTime
    /\ SinceLastExplore > config.explore_interval_minutes
    /\ Explored # {}

\* no message was delivered on day d or later
NothingSentSince(d) == \A i \in 1..Len(delivered) : delivered[i].at < d

\* C30: the quota is reset by the date each tick reads, nothing else: on a
\* day on which nothing has been sent yet, whatever was sent on earlier
\* days, a tick is not turned away by the quota and starts with a count of
\* 0, so that it dispatches what the quota held back the day before.
C30_QuotaResetsWithTheDate ==
    \A t \in Callers :
        /\ (pc[t] = "idle" /\ config.enabled /\ NothingSentSince(now)) =>
               ~ReturnsAtOnce
        /\ (pc[t] \in {"lock", "explore", "list", "loop"}
                /\ NothingSentSince(today[t])) =>
               /\ today_count[t] = 0
               /\ today_count[t] < MaxPerDay

\* C30, its case: an opportunity stored on a day whose quota was used up,
\* and never delivered, is accepted by a tick of a later day
C30_Witness ==
    \E t \in Callers :
        /\ pc[t] = "send"
        /\ Current(t).created_at < today[t]
        /\ Current(t).created_at \in DOMAIN _today_count
        /\ _today_count[Current(t).created_at] >= MaxPerDay
        /\ Cardinality(DeliveriesOn(Current(t).created_at)) >= MaxPerDay
        /\ DeliveriesOf(Current(t).id) = {}
        /\ today_count[t] = 0

\* C31: deduplication is keyed by session: should_send rejects a pending
\* candidate with fewer than 3 reminders only when an opportunity sent to the
\* candidate's own session within the last 30 days matches it; an opportunity
\* sent to another session never suppresses it.
C31_DedupKeyedBySession ==
    (/\ probe.ret = "false"
     /\ probe.arg.status = "pending"
     /\ probe.arg.reminder_count < MaxReminders)
    => \E i \in MatchesOf(probe.arg) :
           store_sent[i].session_id = probe.arg.session_id

(***************************************************************************)
(* MemoryService.should_trigger_search (memory/service.py)                 *)
(*                                                                         *)
(* A str is the sequence of its characters.                                *)
(***************************************************************************)
\* longest keyword_triggers and keyword_skips setting tried
MaxSettingLen == 3
\* longest message tried
MaxMessageLen == 2

\* the characters of the settings: two letters and the separator
SettingChars == {"a", "b", ","}
\* the characters of a message
MessageChars == {"a", "b"}

\* every str over `chars` of at most n characters
Strs(chars, n) == UNION { [1..k -> chars] : k \in 0..n }

\* str.split(sep) with a one-character separator: the pieces between the
\* separators, empty pieces kept; "".split(",") is [""]
RECURSIVE split(_, _)
split(s, sep) ==
    IF \A i \in 1..Len(s) : s[i] # sep
    THEN <<s>>
    ELSE LET i == CHOOSE j \in 1..Len(s) :
                      s[j] = sep /\ \A k \in 1..(j - 1) : s[k] # sep
         IN <<SubSeq(s, 1, i - 1)>> \o split(SubSeq(s, i + 1, Len(s)), sep)

\* `sub in message` of two str: message has sub as a substring; the empty
\* str is in every message
In(sub, message) ==
    \E i \in 0..(Len(message) - Len(sub)) :
        SubSeq(message, i + 1, i + Len(sub)) = sub

\* should_trigger_search: the value returned
should_trigger_search(message) ==
    IF config.retrieval_strategy = "always" THEN TRUE
    ELSE IF config.retrieval_strategy = "never" THEN FALSE
    ELSE LET triggers == split(config.keyword_triggers, ",")
             skips == split(config.keyword_skips, ",")
         IN IF \E k \in 1..Len(skips) : In(skips[k], message)
            THEN FALSE
            ELSE \E k \in 1..Len(triggers) : In(triggers[k], message)

\* a MemoryService over a MemoryConfig with any retrieval settings
InitRetrieval ==
    /\ now = 0
    /\ advances = 0
    /\ config \in [enabled : {TRUE}, follow_up_enabled : {TRUE},
                   explore_interval_minutes : {ExploreInterval},
                   retrieval_strategy : {"keyword", "always", "never"},
                   keyword_triggers : Strs(SettingChars, MaxSettingLen),
                   keyword_skips : Strs(SettingChars, MaxSettingLen)]
    /\ store_opportunities = <<>>
    /\ store_sent = <<>>
    /\ _today_count = <<>>
    /\ _last_explore_time = NoneTime
    /\ _explore_lock = "free"
    /\ pc = [t \in Callers |-> "idle"]
    /\ today = [t \in Callers |-> 0]
    /\ today_count = [t \in Callers |-> 0]
    /\ opportunities = [t \in Callers |-> <<>>]
    /\ idx = [t \in Callers |-> 0]
    /\ sent_messages = [t \in Callers |-> <<>>]
    /\ delivered = <<>>
    /\ probe = NoProbe
    /\ run = NoRun
    /\ OtherInit
    /\ HeartbeatInit(AllProvided)

\* should_trigger_search(message): the message and the value returned
ShouldTriggerSearchCall(message) ==
    /\ probe.ret = "none"
    /\ probe' = [ret |-> IF should_trigger_search(message)
                         THEN "true" ELSE "false",
                 cand |-> probe.cand, arg |-> [message |-> message]]
    /\ UNCHANGED <<clockVars, config, run, otherVars, storeVars, svcVars, tickVars,
                   delivered, schedVars>>

NextRetrieval ==
    \E message \in Strs(MessageChars, MaxMessageLen) :
        ShouldTriggerSearchCall(message)

SpecRetrieval == InitRetrieval /\ [][NextRetrieval]_vars

(***************************************************************************)
(* Claims on retrieval                                                     *)
(***************************************************************************)
\* the keywords a comma-separated setting configures: its non-empty pieces
Keywords(setting) ==
    LET pieces == split(setting, ",")
    IN {pieces[k] : k \in 1..Len(pieces)} \ {<<>>}

\* C32: should_trigger_search returns true for every message under 'always',
\* false for every message under 'never', and under 'keyword' true exactly
\* when the message contains a configured trigger keyword and no configured
\* skip keyword.
C32_TriggerByStrategy ==
    probe.ret # "none" =>
        LET message == probe.arg.message
        IN (probe.ret = "true") <=>
               CASE config.retrieval_strategy = "always" -> TRUE
                 [] config.retrieval_strategy = "never" -> FALSE
                 [] OTHER ->
                      /\ \E t \in Keywords(config.keyword_triggers) :
                             In(t, message)
                      /\ \A s \in Keywords(config.keyword_skips) :
                             ~In(s, message)

(***************************************************************************)
(* Claims on overlapping invocations and on failing bookkeeping            *)
(***************************************************************************)
\* C33: when a scheduler tick and a manual trigger overlap, the messages
\* delivered today, by both together, never exceed max_per_day.
C33_OverlapDailyLimit ==
    Cardinality({i \in 1..Len(delivered) : delivered[i].at = now})
        <= MaxPerDay

\* C34: when two invocations overlap, no opportunity is delivered twice:
\* while one invocation stands between its should_send(o) and the end of its
\* mark_sent(o), the other does not accept or deliver o.
C34_OverlapNoDoubleDelivery ==
    /\ \A i, j \in 1..Len(delivered) :
           delivered[i].id = delivered[j].id => i = j
    /\ \A t1, t2 \in Callers :
           (/\ t1 # t2
            /\ pc[t1] \in {"send", "mark"}
            /\ pc[t2] \in {"send", "mark"})
           => Current(t1).id # Current(t2).id

(***************************************************************************)
(* The dispatch loop over a memory store whose writes may fail too.        *)
(***************************************************************************)
\* pulse_check, line 125: the store's set raises inside _save_to_sent
\* (tracker.py:155), after sender.send returned; mark_sent has changed the
\* object in memory, nothing was written
MarkSentFails(t) ==
    /\ pc[t] = "mark"
    /\ Raise(t, "mark_sent")

\* pulse_check, line 129: the store's set raises inside tracker._save
\* (tracker.py:147), called by create_follow_up
CreateFollowUpFails(t) ==
    /\ pc[t] = "follow"
    /\ Raise(t, "create_follow_up")

\* the dispatch loop, one tick after another, over a model service, a sink
\* and a store that may fail
NextStoreFail ==
    \/ TickStep("scheduler")
    \/ ComposeFails("scheduler")
    \/ SendFails("scheduler")
    \/ MarkSentFails("scheduler")
    \/ CreateFollowUpFails("scheduler")

SpecStoreFail == Init /\ [][NextStoreFail]_vars

(***************************************************************************)
(* Claims on failing bookkeeping                                           *)
(***************************************************************************)
\* C35: at the end of every tick, also of one aborted by an exception after
\* some messages were delivered, the stored count for today equals the
\* number of messages delivered today.
C35_CountMatchesDeliveries ==
    pc["scheduler"] = "idle" =>
        TodayCountGet(now) = Cardinality(DeliveriesOn(now))

\* C36: an opportunity whose message was delivered and whose mark_sent then
\* failed on the write to the sent partition is not delivered again by a
\* later tick.
C36_NoRepeatAfterFailedMarkSent ==
    \A t \in Callers :
        (/\ pc[t] = "mark"
         /\ aborted.kind = "mark_sent")
        => Current(t).id # aborted.id

(***************************************************************************)
(* should_send over a sent partition that cannot be read.                  *)
(***************************************************************************)
\* _get_recent_sent(days) when only the records `readable` can be read: a
\* get that raises makes _load_from_uri return None (tracker.py:169-172) and
\* the record is passed over; a list that raises is caught at line 137 and
\* leaves `sent` empty (readable = {})
_get_recent_sent_reading(days, readable) ==
    {s \in _get_recent_sent(days) : s.id \in readable}

\* should_send over the records that could be read: the value returned
should_send_reading(opportunity, readable) ==
    /\ ~\E s \in _get_recent_sent_reading(DedupWindowDays, readable) :
           /\ _is_duplicate(opportunity, s)
           /\ ~(/\ opportunity.source = "follow_up"
                /\ ~_is_follow_up_due(opportunity, s))
    /\ opportunity.status = "pending"
    /\ opportunity.reminder_count < MaxReminders

\* should_send(candidate) while the store fails to list the sent partition
\* or to give some of its records: the verdict, the candidate as the call
\* leaves it, and the records not read
ShouldSendCallReadFails(c) ==
    /\ probe.ret = "none"
    /\ \E readable \in SUBSET (DOMAIN store_sent) :
           /\ readable # DOMAIN store_sent
           /\ LET accepted == should_send_reading(c, readable)
                  expires == /\ ~accepted
                             /\ should_send_reading(
                                    [c EXCEPT !.reminder_count = 0], readable)
                  left == IF expires THEN [c EXCEPT !.status = "expired"]
                          ELSE c
              IN /\ probe' = [ret |-> IF accepted THEN "true" ELSE "false",
                              cand |-> left, arg |-> c,
                              unread |-> DOMAIN store_sent \ readable]
                 /\ store_opportunities' =
                        IF expires THEN _save(store_opportunities, left)
                        ELSE store_opportunities
    /\ UNCHANGED <<clockVars, config, run, otherVars, store_sent, svcVars, tickVars,
                   delivered, schedVars>>

NextReadFail ==
    \/ \E c \in Candidates : ShouldSendCall(c)
    \/ \E c \in Candidates : ShouldSendCallReadFails(c)

SpecReadFail == InitTracker /\ [][NextReadFail]_vars

\* C37: when listing or loading the sent partition fails while should_send
\* evaluates a candidate, a candidate that is not a follow-up and matches an
\* opportunity sent within the last 30 days is not accepted.
C37_ReadFailureNeverAccepts ==
    (/\ probe.ret = "true"
     /\ "unread" \in DOMAIN probe
     /\ probe.arg.source # "follow_up")
    => MatchesOf(probe.arg) = {}

(***************************************************************************)
(* ProactiveService (memory/proactive.py): the simple caring service       *)
(***************************************************************************)
\* config.proactive_max_per_day of the instance under check
ProactiveMaxPerDay == 2
\* caring messages sent in one behaviour
MaxSends == 3
\* calls of record_message in one behaviour
MaxRecords == 3

\* MemoryConfig.proactive_min_interval_hours
ProactiveMinIntervalHours == 6
\* timedelta.total_seconds() / 3600 of one day
HoursPerDay == 24

\* the sessions whose users write
Sessions == {"s1", "s2", "s3"}

\* dict.get(key, default) on a dict kept as a function
Get(d, key, default) == IF key \in DOMAIN d THEN d[key] ELSE default

\* sum(d.values()) of a dict of counts
RECURSIVE Sum(_)
Sum(d) ==
    IF DOMAIN d = {} THEN 0
    ELSE LET k == CHOOSE x \in DOMAIN d : TRUE
         IN d[k] + Sum([x \in DOMAIN d \ {k} |-> d[x]])

\* d[key] = value on a dict kept as a function
Put(d, key, value) == (key :> value) @@ d

\* ProactiveService.__init__: nothing recorded, nothing counted. The dict
\* _last_message_time is kept in the order of insertion, as its items() are.
\* `sends` is the history of the sender.send calls that returned.
ProactiveInit(enabled) ==
    [pc |-> "idle", proactive_enabled |-> enabled,
     _last_message_time |-> <<>>, _today_count |-> <<>>,
     today |-> 0, items |-> <<>>, i |-> 0, sent_messages |-> <<>>,
     returned |-> <<>>, failed |-> {}, sends |-> <<>>, records |-> 0]

\* record_message(session_id): the time of the session's last message
record_message(session_id) ==
    LET t == simple._last_message_time
        at == {k \in 1..Len(t) : t[k].session_id = session_id}
        entry == [session_id |-> session_id, last_time |-> now]
    IN /\ simple.pc \in {"idle", "send"}
       /\ simple.records < MaxRecords
       /\ simple' =
              [simple EXCEPT
                 !.records = @ + 1,
                 !._last_message_time =
                     IF at = {} THEN Append(t, entry)
                     ELSE [k \in 1..Len(t) |->
                              IF k \in at THEN entry ELSE t[k]]]
       /\ UNCHANGED <<clockVars, config, run, tasks, _task, storeVars,
                      svcVars, tickVars, delivered, probe, schedVars>>

\* pulse_check returns `value`
SimpleReturn(s, value) ==
    [s EXCEPT !.pc = "idle", !.returned = value, !.items = <<>>, !.i = 0,
              !.sent_messages = <<>>, !.today = 0]

\* pulse_check, lines 89-104: disabled, or today's total at the limit:
\* return []; otherwise the loop starts over a copy of the items
SimplePulseStart ==
    /\ simple.pc = "idle"
    /\ IF ~simple.proactive_enabled
       THEN simple' = SimpleReturn([simple EXCEPT !.failed = {}], <<>>)
       ELSE LET counts ==
                    IF now \in DOMAIN simple._today_count
                    THEN simple._today_count
                    ELSE Put(simple._today_count, now, <<>>)
                today_total == Sum(counts[now])
                s == [simple EXCEPT !._today_count = counts, !.failed = {}]
            IN IF today_total >= ProactiveMaxPerDay
               THEN simple' = SimpleReturn(s, <<>>)
               ELSE simple' = [s EXCEPT !.pc = "loop", !.today = now,
                                        !.items = simple._last_message_time,
                                        !.i = 1, !.sent_messages = <<>>]
    /\ UNCHANGED <<clockVars, config, run, tasks, _task, storeVars, svcVars,
                   tickVars, delivered, probe, schedVars>>

\* pulse_check, lines 104-116: the next session. It is passed over when it
\* has had max_per_day messages today or wrote less than
\* proactive_min_interval_hours ago; otherwise a message is made and sent.
\* After the last session the list of the sessions written to is returned.
SimpleLoopStep ==
    /\ simple.pc = "loop"
    /\ IF simple.i > Len(simple.items)
       THEN simple' = SimpleReturn(simple, simple.sent_messages)
       ELSE LET item == simple.items[simple.i]
                session_today_count ==
                    Get(simple._today_count[simple.today], item.session_id, 0)
                hours_since == (now - item.last_time) * HoursPerDay
            IN IF session_today_count >= ProactiveMaxPerDay
               THEN simple' = [simple EXCEPT !.i = @ + 1]
               ELSE IF hours_since >= ProactiveMinIntervalHours
                    THEN simple' = [simple EXCEPT !.pc = "send"]
                    ELSE simple' = [simple EXCEPT !.i = @ + 1]
    /\ UNCHANGED <<clockVars, config, run, tasks, _task, storeVars, svcVars,
                   tickVars, delivered, probe, schedVars>>

\* _send_caring_message, lines 129-137, and pulse_check, lines 113-114:
\* sender.send returns, the message is counted under the date of that
\* moment, and the session joins the list
SimpleSendReturns ==
    /\ simple.pc = "send"
    /\ Len(simple.sends) < MaxSends
    /\ LET session_id == simple.items[simple.i].session_id
           of_today == Get(simple._today_count, now, <<>>)
       IN simple' =
              [simple EXCEPT
                 !.sends = Append(@, [session_id |-> session_id, at |-> now]),
                 !._today_count =
                     Put(@, now, Put(of_today, session_id,
                                     Get(of_today, session_id, 0) + 1)),
                 !.sent_messages = Append(@, session_id),
                 !.i = @ + 1, !.pc = "loop"]
    /\ UNCHANGED <<clockVars, config, run, tasks, _task, storeVars, svcVars,
                   tickVars, delivered, probe, schedVars>>

\* _send_caring_message, lines 138-139: sender.send raises; None is returned
\* and pulse_check goes on to the next session
SimpleSendRaises ==
    /\ simple.pc = "send"
    /\ simple' = [simple EXCEPT
                    !.failed = @ \cup {simple.items[simple.i].session_id},
                    !.i = @ + 1, !.pc = "loop"]
    /\ UNCHANGED <<clockVars, config, run, tasks, _task, storeVars, svcVars,
                   tickVars, delivered, probe, schedVars>>

\* a day passes, between pulse checks or while a send is awaited
SimpleAdvance ==
    /\ simple.pc \in {"idle", "send"}
    /\ Advance(1)

InitSimple ==
    /\ now = 0
    /\ advances = 0
    /\ config = [enabled |-> FALSE, follow_up_enabled |-> FALSE,
                 explore_interval_minutes |-> ExploreInterval]
    /\ store_opportunities = <<>>
    /\ store_sent = <<>>
    /\ _today_count = <<>>
    /\ _last_explore_time = NoneTime
    /\ _explore_lock = "free"
    /\ pc = [t \in Callers |-> "idle"]
    /\ today = [t \in Callers |-> 0]
    /\ today_count = [t \in Callers |-> 0]
    /\ opportunities = [t \in Callers |-> <<>>]
    /\ idx = [t \in Callers |-> 0]
    /\ sent_messages = [t \in Callers |-> <<>>]
    /\ delivered = <<>>
    /\ probe = NoProbe
    /\ run = NoRun
    /\ \E enabled \in BOOLEAN : simple = ProactiveInit(enabled)
    /\ tasks = <<>>
    /\ _task = NoTasks
    /\ HeartbeatInit(AllProvided)

\* users write, time passes, and pulse checks follow one another
NextSimple ==
    \/ \E session_id \in Sessions : record_message(session_id)
    \/ SimplePulseStart
    \/ SimpleLoopStep
    \/ SimpleSendReturns
    \/ SimpleSendRaises
    \/ SimpleAdvance

SpecSimple == InitSimple /\ [][NextSimple]_vars

(***************************************************************************)
(* Claims on the simple caring service and on the minimum interval         *)
(***************************************************************************)
\* C38: the simple ProactiveService never sends more than
\* proactive_max_per_day caring messages in one calendar day, summed over all
\* sessions; a send that fails leaves the counts unchanged and its session
\* out of the list the pulse check returns.
C38_SimpleDailyLimit ==
    /\ [](\A k \in 1..Len(simple.sends) :
              Cardinality({j \in 1..Len(simple.sends) :
                              simple.sends[j].at = simple.sends[k].at})
                  <= ProactiveMaxPerDay)
    /\ [](\A session_id \in simple.failed :
              /\ \A k \in 1..Len(simple.sent_messages) :
                     simple.sent_messages[k] # session_id
              /\ simple.pc = "idle" =>
                     \A k \in 1..Len(simple.returned) :
                         simple.returned[k] # session_id)
    /\ [][simple'.failed # simple.failed /\ simple'.failed # {}
            => simple'._today_count = simple._today_count]_vars

\* SmartProactiveConfig.min_interval_hours
MinIntervalHours == 4

\* C39: the smart dispatcher never delivers two proactive messages less than
\* min_interval_hours apart, within one tick or across consecutive ticks.
C39_MinIntervalBetweenDeliveries ==
    \A i, j \in 1..Len(delivered) :
        i < j =>
            (delivered[j].at - delivered[i].at) * HoursPerDay
                >= MinIntervalHours

(***************************************************************************)
(* HeartbeatService: the tasks that start() creates, one by one. stop()    *)
(* asks for their cancellation; a cancelled task meets CancelledError when *)
(* the event loop next resumes it, which may be after a later start().     *)
(***************************************************************************)
\* tasks created in one behaviour
MaxTasks == 6

\* what HeartbeatService may be given as proactive_service: nothing, a
\* ProactiveService (its config is a MemoryConfig) or a SmartProactiveService
\* (its config is a SmartProactiveConfig, without proactive_pulse_interval)
ProactiveServices == {"none", "simple", "smart"}

\* asyncio.create_task(coroutine of loop `kind`): created, not yet run
Task(kind) == [kind |-> kind, at |-> "new", cancelled |-> FALSE]

\* start(), lines 131-145: the loops whose task is created, in that order.
\* Line 136 raises AttributeError on a SmartProactiveService, after _task
\* was created and before the other two.
Created ==
    <<"heartbeat">>
    \o (IF hb.proactive_service = "simple" THEN <<"proactive">> ELSE <<>>)
    \o (IF hb.proactive_service # "smart" /\ hb.personality_updater
        THEN <<"personality">> ELSE <<>>)

\* the tasks the three attributes refer to
Referred == {_task[l] : l \in Loops} \ {0}

\* stop() without the calls of cancel
StopCallNoCancel ==
    /\ _running' = FALSE
    /\ _task' = NoTasks
    /\ UNCHANGED <<clockVars, config, run, simple, tasks, storeVars, svcVars,
                   tickVars, delivered, probe, hb, loop, tick_error, aborted>>

\* stop(): _running is cleared, every task an attribute refers to is asked to
\* cancel (a task that has ended is left as it is) and the attribute is None
StopCall ==
    /\ _running' = FALSE
    /\ tasks' = [i \in 1..Len(tasks) |->
                    IF i \in Referred /\ tasks[i].at # "done"
                    THEN [tasks[i] EXCEPT !.cancelled = TRUE]
                    ELSE tasks[i]]
    /\ _task' = NoTasks
    /\ UNCHANGED <<clockVars, config, run, simple, storeVars, svcVars,
                   tickVars, delivered, probe, hb, loop, tick_error, aborted>>

\* start(): nothing when disabled or already running; otherwise _running is
\* set and the tasks are created and kept in their attributes
StartCall ==
    /\ Len(tasks) + Len(Created) <= MaxTasks
    /\ IF ~hb.enabled \/ _running
       THEN UNCHANGED <<_running, tasks, _task>>
       ELSE /\ _running' = TRUE
            /\ tasks' = tasks \o [k \in 1..Len(Created) |-> Task(Created[k])]
            /\ _task' = [l \in Loops |->
                            IF \E k \in 1..Len(Created) : Created[k] = l
                            THEN Len(tasks) +
                                 (CHOOSE k \in 1..Len(Created) : Created[k] = l)
                            ELSE _task[l]]
    /\ UNCHANGED <<clockVars, config, run, simple, storeVars, svcVars,
                   tickVars, delivered, probe, hb, loop, tick_error, aborted>>

\* `while self._running` of a task that was not cancelled
WhileRunningTask(task) ==
    [task EXCEPT !.at = IF _running THEN "sleep" ELSE "done"]

\* CancelledError at the await the task is suspended at: lines 173, 185 and
\* 209 break (the handlers of the ticks catch Exception, which it is not); a
\* task cancelled before it first ran never runs
Cancelled(task) == [task EXCEPT !.at = "done"]

\* the event loop runs a new task for the first time, up to its first sleep
TaskStarts(i) ==
    /\ tasks[i].at = "new"
    /\ tasks' = [tasks EXCEPT ![i] = IF tasks[i].cancelled
                                     THEN Cancelled(tasks[i])
                                     ELSE WhileRunningTask(tasks[i])]
    /\ UNCHANGED <<clockVars, config, run, simple, _task, storeVars, svcVars,
                   tickVars, delivered, probe, schedVars>>

\* the event loop resumes a task in asyncio.sleep: cancelled, it ends; else
\* the sleep is over and `if self._running` lets the tick begin
TaskWakes(i) ==
    /\ tasks[i].at = "sleep"
    /\ tasks' = [tasks EXCEPT ![i] =
                    IF tasks[i].cancelled THEN Cancelled(tasks[i])
                    ELSE IF _running
                         THEN [tasks[i] EXCEPT !.at = "tick"]
                         ELSE WhileRunningTask(tasks[i])]
    /\ UNCHANGED <<clockVars, config, run, simple, _task, storeVars, svcVars,
                   tickVars, delivered, probe, schedVars>>

\* the event loop resumes a task inside its tick: cancelled, it ends; else
\* the tick returns, or raises an Exception that is logged, and the loop
\* goes round
TaskTickEnds(i) ==
    /\ tasks[i].at = "tick"
    /\ tasks' = [tasks EXCEPT ![i] = IF tasks[i].cancelled
                                     THEN Cancelled(tasks[i])
                                     ELSE WhileRunningTask(tasks[i])]
    /\ UNCHANGED <<clockVars, config, run, simple, _task, storeVars, svcVars,
                   tickVars, delivered, probe, schedVars>>

\* HeartbeatService however it is set up
InitLifecycle ==
    /\ now = 0
    /\ advances = 0
    /\ config = [enabled |-> TRUE, follow_up_enabled |-> TRUE,
                 explore_interval_minutes |-> ExploreInterval]
    /\ store_opportunities = <<>>
    /\ store_sent = <<>>
    /\ _today_count = <<>>
    /\ _last_explore_time = NoneTime
    /\ _explore_lock = "free"
    /\ pc = [t \in Callers |-> "idle"]
    /\ today = [t \in Callers |-> 0]
    /\ today_count = [t \in Callers |-> 0]
    /\ opportunities = [t \in Callers |-> <<>>]
    /\ idx = [t \in Callers |-> 0]
    /\ sent_messages = [t \in Callers |-> <<>>]
    /\ delivered = <<>>
    /\ probe = NoProbe
    /\ run = NoRun
    /\ OtherInit
    /\ \E h \in [enabled : BOOLEAN, proactive_service : ProactiveServices,
                 personality_updater : BOOLEAN] : HeartbeatInit(h)

\* any sequence of start() and stop(), the event loop running the tasks
NextLifecycle ==
    \/ StartCall
    \/ StopCall
    \/ \E i \in 1..Len(tasks) : TaskStarts(i)
    \/ \E i \in 1..Len(tasks) : TaskWakes(i)
    \/ \E i \in 1..Len(tasks) : TaskTickEnds(i)

SpecLifecycle == InitLifecycle /\ [][NextLifecycle]_vars

(***************************************************************************)
(* Claims on the lifecycle of the loops                                    *)
(***************************************************************************)
\* C40: under any sequence of start() and stop(), at most one active task
\* (one that has not ended and was not asked to cancel) exists per loop kind; start() while already running creates no task;
\* start() on a disabled service creates none and leaves it not running; and
\* only a task of the current run (one an attribute refers to, while
\* running) ever begins a tick: tasks of an earlier run execute no further
\* tick after stop() and start().
C40_OneTaskPerLoop ==
    /\ [](\A l \in Loops :
              Cardinality({i \in 1..Len(tasks) :
                              /\ tasks[i].kind = l
                              /\ tasks[i].at # "done"
                              /\ ~tasks[i].cancelled}) <= 1)
    /\ [](~hb.enabled => ~_running /\ tasks = <<>>)
    /\ [][/\ Len(tasks') > Len(tasks) => hb.enabled /\ ~_running
          /\ \A i \in 1..Len(tasks) :
                 tasks[i].at # "tick" /\ tasks'[i].at = "tick"
                     => _running /\ _task[tasks[i].kind] = i]_vars

\* C40, its case: after start(), stop() and start() again, a task of the
\* earlier run that had begun a tick is cancelled and still suspended in it,
\* while the task of the same loop of the new run has begun a tick of its own
C40_Witness ==
    \E i, j \in 1..Len(tasks) :
        /\ i < j
        /\ tasks[i].kind = tasks[j].kind
        /\ tasks[i].cancelled
        /\ tasks[i].at = "tick"
        /\ _running
        /\ _task[tasks[j].kind] = j
        /\ tasks[j].at = "tick"

====
